---- MODULE Spec2Model ----
(***************************************************************************)
(* A model of mdio: the interned residue/atom-name table (conf.rs), the    *)
(* residue grouping iterator ResidueIter (conf.rs) and the GROMOS87        *)
(* fixed-width reader and writer (gromos87.rs, rvec.rs).                   *)
(*                                                                         *)
(* Rc<RefCell<T>> values are modelled as addresses into a heap: `names`    *)
(* holds the Rc<RefCell<String>> cells, `resHeap` the Rc<RefCell<Residue>> *)
(* cells.  Rc::ptr_eq is equality of addresses; the text of a name is what *)
(* the heap holds at its address.  Indices into Vecs are 0-based as in the *)
(* source; Get converts to the 1-based TLA+ sequences.                     *)
(***************************************************************************)
EXTENDS Integers, Sequences, FiniteSets, TLC

VARIABLES
    names,      \* heap of Rc<RefCell<String>>: address -> text
    resHeap,    \* heap of Rc<RefCell<Residue>>: address -> [name, atoms]
    residues,   \* Conf.residues: Vec of Residue addresses
    atoms,      \* Conf.atoms: Vec<Atom>
    index,      \* ResidueIter.index
    status,     \* "iterating", or "panicked" once a call has aborted
    iterLog,    \* one entry per call of ResidueIter::next: cursor before, item, cursor after,
                \* and the texts the name handles held
    internLog,  \* one entry per call of get_or_insert_atom_and_residue: arguments and handles
    title,      \* Conf.title
    origin,     \* Conf.origin
    size,       \* Conf.size
    stream,     \* the bytes of the file: what the writer wrote, what the reader reads
    pc,         \* what the caller holds: "conf", "text", or "failed" after an error or abort
    codecLog,   \* one entry per call of write_gromos87_conf, read_gromos87_conf,
                \* parse_atom_line or RVec::from_whitespace
    atomsWritten,   \* atoms written to the file before the atoms held in `atoms`
    groupsWritten,  \* groups written to the file before the atoms held in `atoms`
    pbcLog      \* one entry per call of Conf::pbc_multiply: arguments, Conf before and after

heapVars == <<names, resHeap>>
confVars == <<residues, atoms, title, origin, size>>
iterVars == <<index, status, iterLog>>
internVars == <<internLog>>
codecVars == <<stream, pc, codecLog>>
writerVars == <<atomsWritten, groupsWritten>>
pbcVars == <<pbcLog>>
vars == <<names, resHeap, residues, atoms, index, status, iterLog, internLog,
          title, origin, size, stream, pc, codecLog, atomsWritten, groupsWritten, pbcLog>>

----------------------------------------------------------------------------
(* Bounds of the model. *)

\* longest atom list over the mixed residues
MaxAtoms == 5
\* longest atom list over the single two-slot residue
MaxPairAtoms == 6
\* calls of next made after it has returned None
MaxNoneCalls == 2
\* calls of get_or_insert_atom_and_residue on one residue list
MaxInternCalls == 4
\* longest atom list of a Conf handed to the writer
MaxConfAtoms == 3
\* most atom records of a file handed to the reader
MaxRecords == 4
\* calls of the writer and the reader in a row
MaxCodecOps == 3
\* most atom records of a file that no writer wrote
MaxBadRecords == 2
\* most atoms left to write when the writer is near the wrap of its counters
MaxTailAtoms == 3
\* calls of the lookups made on their own on one residue list
MaxLookups == 4

----------------------------------------------------------------------------
(* Option<T>: <<>> is None, <<v>> is Some(v). *)

None == <<>>
Some(v) == <<v>>

\* slice::get / Vec::get with a 0-based index
Get(s, i) == IF i >= 0 /\ i < Len(s) THEN Some(s[i + 1]) ELSE None

\* the comparison of the texts in the place of Rc::ptr_eq (a and b name handles)
text_eq(a, b) == names[a] = names[b]

\* Rc::ptr_eq: the two handles are the same allocation
ptr_eq(a, b) == a = b

RVec(x, y, z) == [x |-> x, y |-> y, z |-> z]

Atom(n, r, p, v) == [name |-> n, residue |-> r, position |-> p, velocity |-> v]

\* s[from .. from+n) with a 0-based from
Slice(s, from, n) == [k \in 1..n |-> s[from + k]]

----------------------------------------------------------------------------
(* ResidueIter *)

\* the items ResidueIter::next returns, and the abort of a call
ItemNone == [tag |-> "None"]
ItemOk(atom_list) == [tag |-> "Ok", atoms |-> atom_list]
ItemErr(i) == [tag |-> "Err", index |-> i]
ItemPanic == [tag |-> "Panic"]

\* get_iter_error reporting the cursor after the advance
get_iter_error_after(idx, i) ==
    [index |-> idx + i, item |-> ItemErr(idx + i)]

\* get_iter_error consuming the mismatching atom as well
get_iter_error_inclusive(idx, i) ==
    [index |-> idx + i + 1, item |-> ItemErr(idx)]

\* get_iter_error without its advance of the cursor
get_iter_error_stuck(idx, i) ==
    [index |-> idx, item |-> ItemErr(idx)]

\* ResidueIter::get_iter_error: advance the cursor by i, report the old cursor
get_iter_error(idx, i) ==
    [index |-> idx + i, item |-> ItemErr((idx + i) - i)]

\* the loop of next without its Rc::ptr_eq test: only the presence of atoms is checked
RECURSIVE TemplateWalkPresence(_, _, _, _)
TemplateWalkPresence(as, idx, tmpl, i) ==
    IF i >= Len(tmpl) THEN Len(tmpl)
    ELSE IF Get(as, i + idx) = None THEN i
    ELSE TemplateWalkPresence(as, idx, tmpl, i + 1)

\* the loop `for i in 1..residue_len` of next: the first i at which the atom is
\* missing or is not the template's slot i, or residue_len when none is
RECURSIVE TemplateWalk(_, _, _, _)
TemplateWalk(as, idx, tmpl, i) ==
    IF i >= Len(tmpl) THEN Len(tmpl)
    ELSE LET a == Get(as, i + idx) IN
         IF a = None THEN i
         ELSE IF ~ptr_eq(a[1].name, tmpl[i + 1]) THEN i
         ELSE TemplateWalk(as, idx, tmpl, i + 1)

\* the atom_list without atom1 (the push before the loop forgotten)
GroupAtomsNoFirst(as, idx, residue_len) == Slice(as, idx + 1, residue_len - 1)

\* the atom_list of a complete group: atom1 and the atoms pushed by the loop
GroupAtoms(as, idx, residue_len) == Slice(as, idx, residue_len)

\* next skipping a whole template length after a mismatch inside the template
ResidueIterNextSkipGroup(as, idx, heap) ==
    LET first == Get(as, idx) IN
    IF first = None THEN [index |-> idx, item |-> ItemNone]
    ELSE LET atom1 == first[1]
             tmpl == heap[atom1.residue].atoms
             residue_len == Len(tmpl)
         IN  IF residue_len = 0
             THEN [index |-> idx, item |-> ItemPanic]
             ELSE IF ~ptr_eq(atom1.name, tmpl[1]) THEN get_iter_error(idx, 1)
             ELSE LET i == TemplateWalk(as, idx, tmpl, 1) IN
                  IF i < residue_len
                  THEN [index |-> idx + residue_len, item |-> ItemErr(idx)]
                  ELSE [index |-> idx + residue_len,
                        item |-> ItemOk(GroupAtoms(as, idx, residue_len))]

\* next consuming the atom that fails inside the template along with the atoms
\* before it
ResidueIterNextPastFailure(as, idx, heap) ==
    LET first == Get(as, idx) IN
    IF first = None THEN [index |-> idx, item |-> ItemNone]
    ELSE LET atom1 == first[1]
             tmpl == heap[atom1.residue].atoms
             residue_len == Len(tmpl)
         IN  IF residue_len = 0
             THEN [index |-> idx, item |-> ItemPanic]
             ELSE IF ~ptr_eq(atom1.name, tmpl[1]) THEN get_iter_error(idx, 1)
             ELSE LET i == TemplateWalk(as, idx, tmpl, 1) IN
                  IF i < residue_len
                  THEN get_iter_error(idx, IF Get(as, i + idx) = None THEN i ELSE i + 1)
                  ELSE [index |-> idx + residue_len,
                        item |-> ItemOk(GroupAtoms(as, idx, residue_len))]

\* ResidueIter::next on the atom list `as` with the cursor at idx:
\* the new cursor and the item returned
ResidueIterNext(as, idx, heap) ==
    LET first == Get(as, idx) IN
    IF first = None THEN [index |-> idx, item |-> ItemNone]
    ELSE LET atom1 == first[1]
             tmpl == heap[atom1.residue].atoms
             residue_len == Len(tmpl)
         IN  IF residue_len = 0
             THEN [index |-> idx, item |-> ItemPanic]    \* atoms[0] out of bounds
             ELSE IF ~ptr_eq(atom1.name, tmpl[1]) THEN get_iter_error(idx, 1)
             ELSE LET i == TemplateWalk(as, idx, tmpl, 1) IN
                  IF i < residue_len THEN get_iter_error(idx, i)
                  ELSE [index |-> idx + residue_len,
                        item |-> ItemOk(GroupAtoms(as, idx, residue_len))]

\* one call of ResidueIter::next
IterNext ==
    /\ status = "iterating"
    /\ LET r == ResidueIterNext(atoms, index, resHeap) IN
       /\ r.item = ItemNone =>
             Cardinality({k \in 1..Len(iterLog) : iterLog[k].item = ItemNone}) < MaxNoneCalls
       /\ index' = r.index
       /\ status' = IF r.item = ItemPanic THEN "panicked" ELSE "iterating"
       /\ iterLog' = Append(iterLog, [start |-> index, item |-> r.item, end |-> r.index,
                                       texts |-> names])
    /\ UNCHANGED <<heapVars, confVars, internVars, codecVars, writerVars, pbcVars>>

----------------------------------------------------------------------------
(* The configurations the iterator is run on.  Two residues share the atom *)
(* name texts AT1, AT2 (as two residues of a decoded file may), under      *)
(* different handles; a third residue declares no atom.                    *)

IterNames == <<"AT1", "AT2", "AT1", "AT2", "AT3", "RES1", "RES2", "RES0">>

IterResidues ==
    << [name |-> 6, atoms |-> <<1, 2>>],
       [name |-> 7, atoms |-> <<3, 4, 5>>],
       [name |-> 8, atoms |-> << >>] >>

\* <<name handle, residue handle>> of the atoms drawn: every declared slot, a name
\* of RES1 on an atom of RES2 (equal text, other handle), an atom of the empty residue
AtomKinds == { <<1, 1>>, <<2, 1>>, <<3, 2>>, <<4, 2>>, <<5, 2>>, <<1, 2>>, <<1, 3>> }

PairKinds == { <<1, 1>>, <<2, 1>> }

\* an atom list built from kinds; the k-th atom (0-based) sits at x = k
MakeAtoms(ks) ==
    [k \in 1..Len(ks) |-> Atom(ks[k][1], ks[k][2], RVec(k - 1, 0, 0), None)]

SeqsUpTo(S, n) == UNION { [1..m -> S] : m \in 0..n }

InitIter ==
    /\ names = IterNames
    /\ resHeap = IterResidues
    /\ residues \in { <<1, 2, 3>>, <<3, 2, 1>> }
    /\ \E ks \in SeqsUpTo(AtomKinds, MaxAtoms) \cup SeqsUpTo(PairKinds, MaxPairAtoms) :
          atoms = MakeAtoms(ks)
    /\ index = 0
    /\ status = "iterating"
    /\ iterLog = << >>
    /\ internLog = << >>
    /\ title = <<"A", " ", "t", "i", "t", "l", "e">>
    /\ origin = RVec(0, 0, 0)
    /\ size = RVec(0, 0, 0)
    /\ stream = << >>
    /\ pc = "conf"
    /\ codecLog = << >>
    /\ atomsWritten = 0
    /\ groupsWritten = 0
    /\ pbcLog = << >>

NextIter == IterNext

SpecIter == InitIter /\ [][NextIter]_vars

\* next is a plain method call: a caller that keeps calling gets an answer each time
FairSpecIter == SpecIter /\ WF_vars(IterNext)

----------------------------------------------------------------------------
(* The intern table: get_or_insert_residue, Residue::get_or_insert_atom    *)
(* and get_or_insert_atom_and_residue.  Rc::new allocates the next free    *)
(* address of its heap.  Each operator takes the heaps and returns them    *)
(* with the handle it found or made.                                       *)

Min(S) == CHOOSE m \in S : \A n \in S : m <= n

\* Iterator::find: the first element of s among those, at the indices hits, that
\* pass the test
FindFirst(s, hits) == IF hits = {} THEN None ELSE Some(s[Min(hits)])

\* get_or_insert_atom without the search: every call allocates and pushes
get_or_insert_atom_always(nm, heap, r, atom_name) ==
    LET atom == Len(nm) + 1 IN
    [names |-> Append(nm, atom_name),
     resHeap |-> [heap EXCEPT ![r].atoms = Append(@, atom)],
     atom |-> atom]

\* get_or_insert_atom searching the atom names of every residue
get_or_insert_atom_global(nm, heap, r, atom_name) ==
    LET all == { a \in 1..Len(nm) :
                    /\ nm[a] = atom_name
                    /\ \E q \in 1..Len(heap) : \E i \in 1..Len(heap[q].atoms) : heap[q].atoms[i] = a }
    IN  IF all # {}
        THEN [names |-> nm,
              resHeap |-> IF \E i \in 1..Len(heap[r].atoms) : heap[r].atoms[i] = Min(all)
                          THEN heap
                          ELSE [heap EXCEPT ![r].atoms = Append(@, Min(all))],
              atom |-> Min(all)]
        ELSE LET atom == Len(nm) + 1 IN
             [names |-> Append(nm, atom_name),
              resHeap |-> [heap EXCEPT ![r].atoms = Append(@, atom)],
              atom |-> atom]

\* Residue::get_or_insert_atom on the residue at address r
get_or_insert_atom(nm, heap, r, atom_name) ==
    LET found == FindFirst(heap[r].atoms,
                           { i \in 1..Len(heap[r].atoms) : nm[heap[r].atoms[i]] = atom_name })
    IN  IF found # None
        THEN [names |-> nm, resHeap |-> heap, atom |-> found[1]]
        ELSE LET atom == Len(nm) + 1 IN
             [names |-> Append(nm, atom_name),
              resHeap |-> [heap EXCEPT ![r].atoms = Append(@, atom)],
              atom |-> atom]

\* get_or_insert_residue without the search: every call allocates and pushes
get_or_insert_residue_always(nm, heap, ress, name) ==
    LET res == Len(heap) + 1 IN
    [names |-> Append(nm, name),
     resHeap |-> Append(heap, [name |-> Len(nm) + 1, atoms |-> << >>]),
     residues |-> Append(ress, res),
     residue |-> res]

\* get_or_insert_residue putting the new residue at the front of the list
get_or_insert_residue_front(nm, heap, ress, name) ==
    LET found == FindFirst(ress, { i \in 1..Len(ress) : nm[heap[ress[i]].name] = name })
    IN  IF found # None
        THEN [names |-> nm, resHeap |-> heap, residues |-> ress, residue |-> found[1]]
        ELSE LET res == Len(heap) + 1 IN
             [names |-> Append(nm, name),
              resHeap |-> Append(heap, [name |-> Len(nm) + 1, atoms |-> << >>]),
              residues |-> <<res>> \o ress,
              residue |-> res]

\* get_or_insert_residue
get_or_insert_residue(nm, heap, ress, name) ==
    LET found == FindFirst(ress, { i \in 1..Len(ress) : nm[heap[ress[i]].name] = name })
    IN  IF found # None
        THEN [names |-> nm, resHeap |-> heap, residues |-> ress, residue |-> found[1]]
        ELSE LET res == Len(heap) + 1 IN
             [names |-> Append(nm, name),
              resHeap |-> Append(heap, [name |-> Len(nm) + 1, atoms |-> << >>]),
              residues |-> Append(ress, res),
              residue |-> res]

\* get_or_insert_atom_and_residue: always Ok((residue, atom))
get_or_insert_atom_and_residue(nm, heap, ress, residue_name, atom_name) ==
    LET r == get_or_insert_residue(nm, heap, ress, residue_name)
        a == get_or_insert_atom(r.names, r.resHeap, r.residue, atom_name)
    IN  [names |-> a.names, resHeap |-> a.resHeap, residues |-> r.residues,
         residue |-> r.residue, atom |-> a.atom]

\* the name texts looked up; AT1 is both a residue name and an atom name
ResidueTexts == {"RES1", "RES2", "AT1"}
AtomTexts == {"AT1", "AT2"}

\* one call of get_or_insert_atom_and_residue on the residue list
InternCall ==
    /\ Len(internLog) < MaxInternCalls
    /\ \E residue_name \in ResidueTexts, atom_name \in AtomTexts :
          LET r == get_or_insert_atom_and_residue(names, resHeap, residues,
                                                  residue_name, atom_name) IN
          /\ names' = r.names
          /\ resHeap' = r.resHeap
          /\ residues' = r.residues
          /\ internLog' = Append(internLog,
                [op |-> "atom_and_residue",
                 residue_name |-> residue_name, atom_name |-> atom_name,
                 residue |-> r.residue, atom |-> r.atom])
    /\ UNCHANGED <<atoms, title, origin, size, iterVars, codecVars, writerVars, pbcVars>>

\* what the caller holds after a lookup: the heaps and the residue list as the
\* lookup left them
Interned(nm, heap, ress, entry) ==
    /\ names' = nm
    /\ resHeap' = heap
    /\ residues' = ress
    /\ internLog' = Append(internLog, entry)

\* one call of get_or_insert_residue alone on the residue list
LookupResidue ==
    /\ Len(internLog) < MaxLookups
    /\ \E name \in ResidueTexts :
          LET r == get_or_insert_residue(names, resHeap, residues, name) IN
          Interned(r.names, r.resHeap, r.residues,
                   [op |-> "residue", residue_name |-> name, atom_name |-> "",
                    residue |-> r.residue, atom |-> 0])
    /\ UNCHANGED <<atoms, title, origin, size, iterVars, codecVars, writerVars, pbcVars>>

\* one call of Residue::get_or_insert_atom alone on a residue of the list
LookupAtom ==
    /\ Len(internLog) < MaxLookups
    /\ \E k \in 1..Len(residues), atom_name \in AtomTexts :
          LET a == get_or_insert_atom(names, resHeap, residues[k], atom_name) IN
          Interned(a.names, a.resHeap, residues,
                   [op |-> "atom", residue_name |-> names[resHeap[residues[k]].name],
                    atom_name |-> atom_name, residue |-> residues[k], atom |-> a.atom])
    /\ UNCHANGED <<atoms, title, origin, size, iterVars, codecVars, writerVars, pbcVars>>

\* `let mut residues = Vec::new()`: nothing is allocated yet
InitIntern ==
    /\ names = << >>
    /\ resHeap = << >>
    /\ residues = << >>
    /\ atoms = << >>
    /\ index = 0
    /\ status = "iterating"
    /\ iterLog = << >>
    /\ internLog = << >>
    /\ title = << >>
    /\ origin = RVec(0, 0, 0)
    /\ size = RVec(0, 0, 0)
    /\ stream = << >>
    /\ pc = "conf"
    /\ codecLog = << >>
    /\ atomsWritten = 0
    /\ groupsWritten = 0
    /\ pbcLog = << >>

NextIntern == InternCall

SpecIntern == InitIntern /\ [][NextIntern]_vars

\* the three lookups, each called on its own as the tests do
NextLookup == LookupResidue \/ LookupAtom \/ InternCall

SpecLookup == InitIntern /\ [][NextLookup]_vars

----------------------------------------------------------------------------
(* Text and numbers.  A str is a sequence of one-character strings; the    *)
(* texts of the model are ASCII, so bytes and characters coincide.  An f64 *)
(* is modelled as a decimal with five decimals, held as an integer count   *)
(* of 10^-5 (1.0 is Unit); the texts drawn carry no exponent, inf or nan.  *)

\* decimals an f64 of the model carries
Decimals == 5

RECURSIVE Pow10(_)
Pow10(n) == IF n = 0 THEN 1 ELSE 10 * Pow10(n - 1)

Unit == Pow10(Decimals)

DigitChars == <<"0", "1", "2", "3", "4", "5", "6", "7", "8", "9">>
IsDigit(c) == \E d \in 1..10 : DigitChars[d] = c
DigitVal(c) == (CHOOSE d \in 1..10 : DigitChars[d] = c) - 1

\* char::is_whitespace, on the characters of the model
IsWhitespace(c) == c \in {" ", "\n", "\t", "\r"}

Spaces(n) == [k \in 1..n |-> " "]

\* the tail s[from..] with a 0-based from
From(s, from) == SubSeq(s, from + 1, Len(s))

\* the range s[from..to) with 0-based bounds
Range(s, from, to) == SubSeq(s, from + 1, to)

\* str::trim_end in the place of str::trim: only trailing whitespace removed
TrimEnd(s) ==
    LET solid == { i \in 1..Len(s) : ~IsWhitespace(s[i]) } IN
    IF solid = {} THEN << >>
    ELSE SubSeq(s, 1, CHOOSE m \in solid : \A n \in solid : n <= m)

\* str::trim: leading and trailing whitespace removed
Trim(s) ==
    LET solid == { i \in 1..Len(s) : ~IsWhitespace(s[i]) } IN
    IF solid = {} THEN << >>
    ELSE SubSeq(s, Min(solid), CHOOSE m \in solid : \A n \in solid : n <= m)

\* Display of a usize: its decimal digits
RECURSIVE FormatUsize(_)
FormatUsize(n) ==
    IF n < 10 THEN <<DigitChars[n + 1]>>
    ELSE FormatUsize(n \div 10) \o <<DigitChars[(n % 10) + 1]>>

\* {:>w}: right-aligned in a field of at least w characters, never truncated
PadLeft(s, w) == IF Len(s) >= w THEN s ELSE Spaces(w - Len(s)) \o s

\* {:<w}: left-aligned in a field of at least w characters, never truncated
PadRight(s, w) == IF Len(s) >= w THEN s ELSE s \o Spaces(w - Len(s))

\* {:.prec} of an f64: rounded to prec decimals (ties to even), sign kept
FormatFixed(v, prec) ==
    LET scale == Pow10(Decimals - prec)
        a == IF v < 0 THEN 0 - v ELSE v
        q == a \div scale
        r == a % scale
        rounded == IF 2 * r > scale \/ (2 * r = scale /\ q % 2 = 1) THEN q + 1 ELSE q
        whole == FormatUsize(rounded \div Pow10(prec))
        frac == FormatUsize(rounded % Pow10(prec))
        zeros == [k \in 1..(prec - Len(frac)) |-> "0"]
    IN  (IF v < 0 THEN <<"-">> ELSE << >>) \o whole \o <<".">> \o zeros \o frac

\* the value of a string of digits
RECURSIVE DigitsValue(_)
DigitsValue(s) ==
    IF s = << >> THEN 0
    ELSE 10 * DigitsValue(SubSeq(s, 1, Len(s) - 1)) + DigitVal(s[Len(s)])

AllDigits(s) == \A i \in 1..Len(s) : IsDigit(s[i])

\* str::parse::<usize>: an optional + and at least one digit
ParseUsize(s) ==
    LET body == IF s # << >> /\ s[1] = "+" THEN Tail(s) ELSE s IN
    IF body # << >> /\ AllDigits(body) THEN Some(DigitsValue(body)) ELSE None

\* an f64 of magnitude F64Limit or more is held as the one value Huge
F64Limit == 20000
Huge == F64Limit * Unit

\* s without its leading zeros
RECURSIVE StripZeros(_)
StripZeros(s) == IF s # << >> /\ s[1] = "0" THEN StripZeros(Tail(s)) ELSE s

\* str::parse::<f64>: an optional sign, digits with at most one point, at least
\* one digit
ParseFloat(s) ==
    LET signed == s # << >> /\ s[1] \in {"+", "-"}
        body == IF signed THEN Tail(s) ELSE s
        points == { i \in 1..Len(body) : body[i] = "." }
        whole == IF points = {} THEN body ELSE SubSeq(body, 1, Min(points) - 1)
        frac == IF points = {} THEN << >> ELSE SubSeq(body, Min(points) + 1, Len(body))
        kept == SubSeq(frac \o [k \in 1..Decimals |-> "0"], 1, Decimals)
        digits == StripZeros(whole)
        value == IF Len(digits) > 5 \/ (Len(digits) = 5 /\ DigitsValue(digits) >= F64Limit)
                 THEN Huge
                 ELSE DigitsValue(digits) * Unit + DigitsValue(kept)
    IN  IF /\ Cardinality(points) <= 1
           /\ AllDigits(whole) /\ AllDigits(frac)
           /\ Len(whole) + Len(frac) >= 1
        THEN Some(IF signed /\ s[1] = "-" THEN 0 - value ELSE value)
        ELSE None

----------------------------------------------------------------------------
(* RVec parsing (rvec.rs).  A Result is a record: err is "" for Ok and the *)
(* ParseRVecError variant otherwise.                                       *)

RVecOk(v) == [err |-> "", value |-> v]
RVecErr(e) == [err |-> e, value |-> RVec(0, 0, 0)]

\* slice::chunks: consecutive pieces of `length`, the last one possibly shorter
Chunks(input, length) ==
    [k \in 1..((Len(input) + length - 1) \div length) |->
        SubSeq(input, (k - 1) * length + 1,
               IF k * length < Len(input) THEN k * length ELSE Len(input))]

\* str::split_whitespace: the maximal runs of non-whitespace, in order
SplitWhitespace(input) ==
    LET starts == { i \in 1..Len(input) :
                       /\ ~IsWhitespace(input[i])
                       /\ (i = 1 \/ IsWhitespace(input[i - 1])) }
        EndOf(i) == Min({ j \in i..Len(input) :
                             j = Len(input) \/ IsWhitespace(input[j + 1]) })
        Nth(k) == CHOOSE i \in starts : Cardinality({ j \in starts : j < i }) = k - 1
    IN  [k \in 1..Cardinality(starts) |-> SubSeq(input, Nth(k), EndOf(Nth(k)))]

\* the three `iter.next().ok_or(..)??` of from_fixed and from_whitespace: the
\* k-th field is taken in turn, a missing one gives `missing(k)`, an unparsable
\* one ParseFloatError
ThreeFields(fields, missing) ==
    LET val(k) == ParseFloat(fields[k])
        bad == { k \in 1..3 : k > Len(fields) \/ val(k) = None }
    IN  IF bad = {} THEN RVecOk(RVec(val(1)[1], val(2)[1], val(3)[1]))
        ELSE IF Min(bad) > Len(fields) THEN RVecErr(missing[Min(bad)])
        ELSE RVecErr("ParseFloatError")

\* RVec::from_fixed
from_fixed(input, length) ==
    IF Trim(input) = << >> THEN RVecErr("MissingValues")
    ELSE LET chunks == Chunks(input, length) IN
         ThreeFields([k \in 1..Len(chunks) |-> Trim(chunks[k])],
                     <<"MissingValues", "MissingValues", "MissingValues">>)

\* from_whitespace with the errors of from_fixed: MissingValues for every field
\* that is not there
from_whitespace_missing(input) ==
    ThreeFields(SplitWhitespace(input),
                <<"MissingValues", "MissingValues", "MissingValues">>)

\* RVec::from_whitespace
from_whitespace(input) ==
    ThreeFields(SplitWhitespace(input),
                <<"MissingValues", "ParseFloatError", "ParseFloatError">>)

----------------------------------------------------------------------------
(* The GROMOS87 reader (gromos87.rs). *)

GRO_MINLINELEN == 44

LineOk(rn, an, p, v) ==
    [ok |-> TRUE, residue_name |-> rn, atom_name |-> an, position |-> p, velocity |-> v]
LineErr ==
    [ok |-> FALSE, residue_name |-> << >>, atom_name |-> << >>,
     position |-> RVec(0, 0, 0), velocity |-> None]

\* parse_atom_line reading the names one column to the right
parse_atom_line_shifted(line) ==
    IF Len(line) < GRO_MINLINELEN THEN LineErr
    ELSE LET position == from_fixed(From(line, 20), 8)
             velocity == from_fixed(From(line, 44), 8)
         IN  IF position.err # "" THEN LineErr
             ELSE IF velocity.err = ""
                  THEN LineOk(Trim(Range(line, 6, 11)), Trim(Range(line, 11, 16)),
                              position.value, Some(velocity.value))
             ELSE IF velocity.err = "MissingValues"
                  THEN LineOk(Trim(Range(line, 6, 11)), Trim(Range(line, 11, 16)),
                              position.value, None)
             ELSE LineErr

\* parse_atom_line
parse_atom_line(line) ==
    IF Len(line) < GRO_MINLINELEN THEN LineErr
    ELSE LET residue_name == Trim(Range(line, 5, 10))
             atom_name == Trim(Range(line, 10, 15))
             position == from_fixed(From(line, 20), 8)
             velocity == from_fixed(From(line, 44), 8)
         IN  IF position.err # "" THEN LineErr
             ELSE IF velocity.err = ""
                  THEN LineOk(residue_name, atom_name, position.value, Some(velocity.value))
             ELSE IF velocity.err = "MissingValues"
                  THEN LineOk(residue_name, atom_name, position.value, None)
             ELSE LineErr

\* BufRead::read_line: the text up to and including the first newline (all of it
\* when there is none), and what remains to be read
ReadLine(rest) ==
    LET nl == { i \in 1..Len(rest) : rest[i] = "\n" } IN
    IF nl = {} THEN [buf |-> rest, rest |-> << >>]
    ELSE [buf |-> SubSeq(rest, 1, Min(nl)), rest |-> SubSeq(rest, Min(nl) + 1, Len(rest))]

\* what read_gromos87_conf gives: Ok(Conf) with the heaps it allocated, Err(ReadError)
\* with the line number the error carries (0 when it carries none), or the abort
\* of `expect`
ReadOk(title_, size_, nm, heap, ress, ats) ==
    [result |-> "Ok", error |-> "", line |-> 0, title |-> title_,
     origin |-> RVec(0, 0, 0), size |-> size_,
     names |-> nm, resHeap |-> heap, residues |-> ress, atoms |-> ats]
ReadErr(e, n) ==
    [result |-> "Err", error |-> e, line |-> n, title |-> << >>,
     origin |-> RVec(0, 0, 0), size |-> RVec(0, 0, 0),
     names |-> << >>, resHeap |-> << >>, residues |-> << >>, atoms |-> << >>]
ReadPanic == [ReadErr("", 0) EXCEPT !.result = "Panic"]

\* the loop `for i in 0..num_atoms` of read_gromos87_conf and what follows it
RECURSIVE ReadAtomLines(_, _, _, _, _, _, _, _)

\* `atoms.push(Atom { name, residue, position, velocity })` and the next iteration;
\* r is what get_or_insert_atom_and_residue gave
PushAtom(r, rest, atom_line, i, num_atoms, title_, ats) ==
    ReadAtomLines(rest, i + 1, num_atoms, title_, r.names, r.resHeap, r.residues,
                  Append(ats, Atom(r.atom, r.residue, atom_line.position, atom_line.velocity)))

\* the `?` on parse_atom_line's result (LineError carries 2 + i), then the interning
\* of the two names
InternAtomLine(atom_line, rest, i, num_atoms, title_, nm, heap, ress, ats) ==
    IF ~atom_line.ok THEN ReadErr("LineError", 2 + i)
    ELSE PushAtom(get_or_insert_atom_and_residue(
                      nm, heap, ress, atom_line.residue_name, atom_line.atom_name),
                  rest, atom_line, i, num_atoms, title_, ats)

\* one iteration of the loop on the line l that read_line gave
ReadAtomLine(l, i, num_atoms, title_, nm, heap, ress, ats) ==
    InternAtomLine(parse_atom_line(l.buf), l.rest, i, num_atoms, title_, nm, heap, ress, ats)

\* `RVec::from_whitespace(&buf).expect("could not read box size")` and the Ok(Conf)
ReadBoxSize(size_, title_, nm, heap, ress, ats) ==
    IF size_.err # "" THEN ReadPanic
    ELSE ReadOk(title_, size_.value, nm, heap, ress, ats)

ReadAtomLines(rest, i, num_atoms, title_, nm, heap, ress, ats) ==
    IF i < num_atoms
    THEN ReadAtomLine(ReadLine(rest), i, num_atoms, title_, nm, heap, ress, ats)
    ELSE ReadBoxSize(from_whitespace(ReadLine(rest).buf), title_, nm, heap, ress, ats)

\* the `?` on the atom count (NumAtomsError) and the loop; l2 is the second line
ReadNumAtoms(num_atoms, rest, title_) ==
    IF num_atoms = None THEN ReadErr("NumAtomsError", 0)
    ELSE ReadAtomLines(rest, 0, num_atoms[1], title_, << >>, << >>, << >>, << >>)

\* the title line l1 (trimmed) and the atom-count line that follows it
ReadTitle(l1) ==
    ReadNumAtoms(ParseUsize(Trim(ReadLine(l1.rest).buf)), ReadLine(l1.rest).rest, Trim(l1.buf))

\* read_gromos87_conf on the bytes of the reader
read_gromos87_conf(reader) == ReadTitle(ReadLine(reader))

----------------------------------------------------------------------------
(* The GROMOS87 writer (gromos87.rs).  The writer is an in-memory buffer:  *)
(* every write! appends and none fails.                                    *)

\* GROMOS-87 wraps indices at 5 digits
IndexWrap == 100000

\* the text a name handle holds
NameText(nm, a) == nm[a]

\* the three {:>8.prec} fields of one RVec
FormatRVec8(v, prec) ==
    PadLeft(FormatFixed(v.x, prec), 8) \o PadLeft(FormatFixed(v.y, prec), 8)
        \o PadLeft(FormatFixed(v.z, prec), 8)

\* "{:>5}{:<5}{:>5}{:>5}{:>8.3}{:>8.3}{:>8.3}", "{:>8.4}{:>8.4}{:>8.4}" when there is
\* a velocity, and "\n"
AtomLineText(res_num, residue_name, atom_name, atom_num, position, velocity) ==
    PadLeft(FormatUsize(res_num), 5)
        \o PadRight(residue_name, 5)
        \o PadLeft(atom_name, 5)
        \o PadLeft(FormatUsize(atom_num), 5)
        \o FormatRVec8(position, 3)
        \o (IF velocity # None THEN FormatRVec8(velocity[1], 4) ELSE << >>)
        \o <<"\n">>

\* the three write! of one atom of write_gromos87_conf
FormatAtomLine(nm, heap, res_num_wrapped, atom, atom_num_wrapped) ==
    AtomLineText(res_num_wrapped, NameText(nm, heap[atom.residue].name),
                 NameText(nm, atom.name), atom_num_wrapped, atom.position, atom.velocity)

\* the inner loop over the atoms of one group: atom_num counts on across groups
RECURSIVE WriteGroup(_, _, _, _, _, _)

\* the inner loop writing atom_num as it is, unwrapped
WriteGroupUnwrapped(nm, heap, res_num_wrapped, group, k, atom_num) ==
    IF k > Len(group) THEN << >>
    ELSE FormatAtomLine(nm, heap, res_num_wrapped, group[k], atom_num + 1)
            \o WriteGroup(nm, heap, res_num_wrapped, group, k + 1, atom_num + 1)

WriteGroup(nm, heap, res_num_wrapped, group, k, atom_num) ==
    IF k > Len(group) THEN << >>
    ELSE FormatAtomLine(nm, heap, res_num_wrapped, group[k], (atom_num + 1) % IndexWrap)
            \o WriteGroup(nm, heap, res_num_wrapped, group, k + 1, atom_num + 1)

\* " {:12.5} {:12.5} {:12.5}\n" of the box size
FormatBoxLine(size_) ==
    <<" ">> \o PadLeft(FormatFixed(size_.x, 5), 12)
        \o <<" ">> \o PadLeft(FormatFixed(size_.y, 5), 12)
        \o <<" ">> \o PadLeft(FormatFixed(size_.z, 5), 12) \o <<"\n">>

WriteOk(out) == [result |-> "Ok", residue |-> 0, out |-> out]
WriteBadResidue(r, out) == [result |-> "BadResidue", residue |-> r, out |-> out]
WritePanic(out) == [result |-> "Panic", residue |-> 0, out |-> out]

\* the loop over conf.iter_residues().enumerate() and the box line after it; idx is
\* the iterator's cursor, res_num the enumerate count, out what has been written
RECURSIVE WriteResidues(_, _, _, _, _, _, _, _)

\* the body of the loop reporting the enumerate count as it is, from 0
WriteResidueFromZero(r, nm, heap, ats, size_, res_num, atom_num, out) ==
    IF r.item.tag = "None" THEN WriteOk(out \o FormatBoxLine(size_))
    ELSE IF r.item.tag = "Panic" THEN WritePanic(out)
    ELSE IF r.item.tag = "Err" THEN WriteBadResidue(res_num, out)
    ELSE WriteResidues(nm, heap, ats, size_, r.index, res_num + 1,
                       atom_num + Len(r.item.atoms),
                       out \o WriteGroup(nm, heap, (res_num + 1) % IndexWrap,
                                         r.item.atoms, 1, atom_num))

\* the body of the loop on what the iterator's next() gave (r): the end of the
\* iteration, the abort inside next(), BadResidue(res_num + 1), or one group written
WriteResidue(r, nm, heap, ats, size_, res_num, atom_num, out) ==
    IF r.item.tag = "None" THEN WriteOk(out \o FormatBoxLine(size_))
    ELSE IF r.item.tag = "Panic" THEN WritePanic(out)
    ELSE IF r.item.tag = "Err" THEN WriteBadResidue(res_num + 1, out)
    ELSE WriteResidues(nm, heap, ats, size_, r.index, res_num + 1,
                       atom_num + Len(r.item.atoms),
                       out \o WriteGroup(nm, heap, (res_num + 1) % IndexWrap,
                                         r.item.atoms, 1, atom_num))

WriteResidues(nm, heap, ats, size_, idx, res_num, atom_num, out) ==
    WriteResidue(ResidueIterNext(ats, idx, heap), nm, heap, ats, size_, res_num, atom_num, out)

\* write_gromos87_conf counting the box-size line among the atoms
write_gromos87_conf_miscounted(title_, size_, nm, heap, ats) ==
    WriteResidues(nm, heap, ats, size_, 0, 0, 0,
                  title_ \o <<"\n">> \o FormatUsize(Len(ats) + 1) \o <<"\n">>)

\* write_gromos87_conf: the result and the bytes the writer holds afterwards
write_gromos87_conf(title_, size_, nm, heap, ats) ==
    WriteResidues(nm, heap, ats, size_, 0, 0, 0,
                  title_ \o <<"\n">> \o FormatUsize(Len(ats)) \o <<"\n">>)

----------------------------------------------------------------------------
(* Writing and reading a file.  The caller holds a Conf (pc = "conf") and  *)
(* writes it, or holds the bytes of a file (pc = "text") and reads them.   *)

\* what a Conf says in text: the title and, per atom, the texts of its names,
\* its position and its velocity
ConfView(title_, nm, heap, ats) ==
    [title |-> title_,
     atoms |-> [k \in 1..Len(ats) |->
                  [atom_name |-> NameText(nm, ats[k].name),
                   residue_name |-> NameText(nm, heap[ats[k].residue].name),
                   position |-> ats[k].position,
                   velocity |-> ats[k].velocity]]]

\* what the caller holds after write_gromos87_conf gave w
Encoded(w) ==
    /\ stream' = w.out
    /\ pc' = IF w.result = "Ok" THEN "text" ELSE "failed"
    /\ codecLog' = Append(codecLog,
          [op |-> "encode", result |-> w.result, error |-> "", number |-> w.residue,
           conf |-> ConfView(title, names, resHeap, atoms)])

\* one call of write_gromos87_conf on the Conf, into an empty buffer
Encode ==
    /\ pc = "conf"
    /\ Len(codecLog) < MaxCodecOps
    /\ Encoded(write_gromos87_conf(title, size, names, resHeap, atoms))
    /\ UNCHANGED <<heapVars, confVars, iterVars, internVars, writerVars, pbcVars>>

\* what the caller holds after read_gromos87_conf gave r: the Conf it returned
\* replaces the one held
Decoded(r) ==
    /\ IF r.result = "Ok"
       THEN /\ names' = r.names
            /\ resHeap' = r.resHeap
            /\ residues' = r.residues
            /\ atoms' = r.atoms
            /\ title' = r.title
            /\ origin' = r.origin
            /\ size' = r.size
            /\ pc' = "conf"
       ELSE /\ UNCHANGED <<heapVars, confVars>>
            /\ pc' = "failed"
    /\ codecLog' = Append(codecLog,
          [op |-> "decode", result |-> r.result, error |-> r.error, number |-> r.line,
           conf |-> ConfView(r.title, r.names, r.resHeap, r.atoms)])

\* one call of read_gromos87_conf on the bytes of the file
Decode ==
    /\ pc = "text"
    /\ Len(codecLog) < MaxCodecOps
    /\ Decoded(read_gromos87_conf(stream))
    /\ UNCHANGED <<stream, iterVars, internVars, writerVars, pbcVars>>

\* the name cells and residues of the Confs written: a two-atom residue, a residue
\* whose names fill their five columns, one whose name is six characters long,
\* one whose name begins with a space and one that declares no atom
CodecNames ==
    << <<"R", "E", "S", "1">>, <<"A", "T", "1">>, <<"A", "T", "2">>,
       <<"R", "E", "S", "I", "D">>, <<"A", "T", "O", "M", "5">>,
       <<"L", "O", "N", "G", "R", "S">>, <<"A", "T", "1">>,
       <<" ", "R", "2">>, <<"O", "W">>, <<"R", "E", "S", "0">> >>

CodecResidues ==
    << [name |-> 1, atoms |-> <<2, 3>>],
       [name |-> 4, atoms |-> <<5>>],
       [name |-> 6, atoms |-> <<7>>],
       [name |-> 8, atoms |-> <<9>>],
       [name |-> 10, atoms |-> << >>] >>

CodecKinds == { <<2, 1>>, <<3, 1>>, <<5, 2>>, <<7, 3>>, <<9, 4>>, <<2, 5>> }

Titles == { <<"A", " ", "t", "i", "t", "l", "e">>, <<" ", "A">> }

\* the positions and velocities given to the k-th atom (from 1) of a Conf: plain
\* values, values that need rounding, values that fill their eight columns, a
\* position and a velocity too wide for eight columns, values that need rounding
\* with velocities on odd atoms only
Profiles == {"plain", "rounded", "full", "wide_position", "wide_velocity", "mixed"}

ProfilePosition(profile, k) ==
    CASE profile \in {"rounded", "mixed"} -> RVec(123456 + k * Unit, 0 - 49, 5)
      [] profile = "full" -> RVec(999999900, 0 - 99999900, k * Unit)
      [] profile = "wide_position" -> RVec(1000000000, 0, k * Unit)
      [] OTHER -> RVec(k * Unit, 2 * Unit, 0 - 150000)

ProfileVelocity(profile, k) ==
    CASE profile = "rounded" -> Some(RVec(12346, 0 - 4, k * Unit))
      [] profile = "full" -> Some(RVec(99999990, 0 - 9999990, 0))
      [] profile = "wide_velocity" -> Some(RVec(0 - 100 * Unit, 0, 0))
      [] profile = "mixed" -> IF k % 2 = 1 THEN Some(RVec(k * Unit, 0, 0)) ELSE None
      [] OTHER -> None

MakeConfAtoms(ks, profile) ==
    [k \in 1..Len(ks) |->
        Atom(ks[k][1], ks[k][2], ProfilePosition(profile, k), ProfileVelocity(profile, k))]

\* the records of the files read that no writer wrote: residue and atom names in
\* any order, every residue numbered 1
RecordKinds ==
    { << <<"R", "E", "S", "1">>, <<"A", "T", "1">> >>,
      << <<"R", "E", "S", "1">>, <<"A", "T", "2">> >>,
      << <<"R", "E", "S", "2">>, <<"A", "T", "1">> >> }

RECURSIVE RecordLines(_, _, _)
RecordLines(recs, k, with_velocity) ==
    IF k > Len(recs) THEN << >>
    ELSE AtomLineText(1, recs[k][1], recs[k][2], k, RVec(k * Unit, 0, 0),
                      IF with_velocity THEN Some(RVec(0, k * Unit, 0)) ELSE None)
            \o RecordLines(recs, k + 1, with_velocity)

FileText(title_, recs, with_velocity, size_) ==
    title_ \o <<"\n">> \o FormatUsize(Len(recs)) \o <<"\n">>
        \o RecordLines(recs, 1, with_velocity) \o FormatBoxLine(size_)

\* a Conf built by the caller
InitCodecConf ==
    /\ names = CodecNames
    /\ resHeap = CodecResidues
    /\ residues = <<1, 2, 3, 4, 5>>
    /\ \E ks \in SeqsUpTo(CodecKinds, MaxConfAtoms), profile \in Profiles :
          atoms = MakeConfAtoms(ks, profile)
    /\ title \in Titles
    /\ origin = RVec(1 * Unit, 2 * Unit, 3 * Unit)
    /\ size = RVec(10 * Unit, 20 * Unit, 30 * Unit)
    /\ stream = << >>
    /\ pc = "conf"

\* the bytes of a file, and no Conf yet
InitCodecText ==
    /\ names = << >>
    /\ resHeap = << >>
    /\ residues = << >>
    /\ atoms = << >>
    /\ title = << >>
    /\ origin = RVec(0, 0, 0)
    /\ size = RVec(0, 0, 0)
    /\ \E recs \in SeqsUpTo(RecordKinds, MaxRecords), with_velocity \in BOOLEAN :
          stream = FileText(<<"A", " ", "t", "i", "t", "l", "e">>, recs, with_velocity,
                            RVec(10 * Unit, 20 * Unit, 30 * Unit))
    /\ pc = "text"

\* the atom-count line of a file of n records: the count, one more, one fewer,
\* no number, or no line at all
CountShapes == {"exact", "more", "fewer", "bad", "missing"}

CountLine(shape, n) ==
    CASE shape = "exact" -> FormatUsize(n) \o <<"\n">>
      [] shape = "more" -> FormatUsize(n + 1) \o <<"\n">>
      [] shape = "fewer" -> FormatUsize(n - 1) \o <<"\n">>
      [] shape = "bad" -> <<"2", "x", "\n">>
      [] OTHER -> << >>

\* the box-size line: as the writer writes it, none, two numbers, a first token
\* that is no number, a fourth token, and tokens apart by tabs and several spaces;
\* the lines of the tests end the file without a newline
BoxShapes == {"full", "missing", "two", "bad", "extra", "spaced"}

BoxLine(shape) ==
    CASE shape = "full" -> FormatBoxLine(RVec(10 * Unit, 20 * Unit, 30 * Unit))
      [] shape = "two" -> <<"1", ".", "0", " ", "2", ".", "0">>
      [] shape = "bad" -> <<"1", ".", "s", " ", "2", ".", "0", " ", "3", ".", "0">>
      [] shape = "extra" -> <<"1", ".", "0", " ", "2", ".", "0", " ", "3", ".", "0", " ",
                              "4", ".", "0", "\n">>
      [] shape = "spaced" -> <<" ", " ", "1", ".", "0", "\t", " ", "2", ".", "0", " ", " ",
                               " ", "3", ".", "0", " ", "\n">>
      [] OTHER -> << >>

\* what is wrong with one record of a file: it lacks its last character (43 of
\* its 44), it stops after 30 characters, a position holds a letter, or two
\* velocity fields follow the position
RecordFlaws == {"short", "cut", "letter", "two_velocities"}

FlawedRecord(line, flaw) ==
    CASE flaw = "short" -> SubSeq(line, 1, 43) \o <<"\n">>
      [] flaw = "cut" -> SubSeq(line, 1, 30) \o <<"\n">>
      [] flaw = "letter" -> [line EXCEPT ![24] = "s"]
      [] OTHER -> SubSeq(line, 1, 44) \o FormatFixed(Unit, 4) \o <<" ", " ">>
                     \o FormatFixed(2 * Unit, 4) \o <<" ", " ", "\n">>

\* the records of a file, the one at flaw_at (from 1; 0 for none) flawed
RECURSIVE FlawedRecordLines(_, _, _, _, _)
FlawedRecordLines(recs, k, with_velocity, flaw_at, flaw) ==
    IF k > Len(recs) THEN << >>
    ELSE (IF k = flaw_at
          THEN FlawedRecord(RecordLines(<<recs[k]>>, 1, with_velocity), flaw)
          ELSE RecordLines(<<recs[k]>>, 1, with_velocity))
            \o FlawedRecordLines(recs, k + 1, with_velocity, flaw_at, flaw)

FileTitles == { <<"A", " ", "t", "i", "t", "l", "e">>, <<" ", " ", "A", " ", "b", " ">> }

\* the bytes of a file that no writer wrote
InitCodecBadText ==
    /\ names = << >>
    /\ resHeap = << >>
    /\ residues = << >>
    /\ atoms = << >>
    /\ title = << >>
    /\ origin = RVec(0, 0, 0)
    /\ size = RVec(0, 0, 0)
    /\ \E recs \in SeqsUpTo(RecordKinds, MaxBadRecords), with_velocity \in BOOLEAN,
          count \in CountShapes, box \in BoxShapes, title_ \in FileTitles :
       \E flaw_at \in 0..Len(recs), flaw \in RecordFlaws :
          /\ count = "fewer" => Len(recs) > 0
          /\ flaw_at = 0 => flaw = "short"
          /\ stream = title_ \o <<"\n">> \o CountLine(count, Len(recs))
                         \o FlawedRecordLines(recs, 1, with_velocity, flaw_at, flaw)
                         \o BoxLine(box)
    /\ pc = "text"

InitCodec ==
    /\ InitCodecConf \/ InitCodecText \/ InitCodecBadText
    /\ index = 0
    /\ status = "iterating"
    /\ iterLog = << >>
    /\ internLog = << >>
    /\ codecLog = << >>
    /\ atomsWritten = 0
    /\ groupsWritten = 0
    /\ pbcLog = << >>

NextCodec == Encode \/ Decode

SpecCodec == InitCodec /\ [][NextCodec]_vars

----------------------------------------------------------------------------
(* The writer near the wrap of its counters.  A file of 100 000 atoms is   *)
(* out of reach, so the writer is taken in the middle of its loop over the *)
(* groups: atomsWritten atoms in groupsWritten groups have been written,   *)
(* the iterator's cursor is on the first atom left, and `atoms` holds the  *)
(* atoms left (next() reads none before its cursor).                       *)

\* the rest of the loop of write_gromos87_conf and the box line
EncodeTail ==
    /\ pc = "writing"
    /\ Encoded(WriteResidues(names, resHeap, atoms, size, 0, groupsWritten, atomsWritten,
                             << >>))
    /\ UNCHANGED <<heapVars, confVars, iterVars, internVars, writerVars, pbcVars>>

\* atoms of the two-atom residue and of the one-atom residue
TailKinds == { <<2, 1>>, <<3, 1>>, <<5, 2>> }

\* atoms and groups written so far: none, and counts at and around 100 000; a
\* group has at least one atom
WrittenCounts ==
    { c \in {0, 99998, 99999, 199999} \X {0, 99998, 99999} : c[2] <= c[1] }

InitTail ==
    /\ names = CodecNames
    /\ resHeap = CodecResidues
    /\ residues = <<1, 2, 3, 4, 5>>
    /\ \E ks \in SeqsUpTo(TailKinds, MaxTailAtoms) : atoms = MakeConfAtoms(ks, "mixed")
    /\ \E c \in WrittenCounts : atomsWritten = c[1] /\ groupsWritten = c[2]
    /\ title = <<"A", " ", "t", "i", "t", "l", "e">>
    /\ origin = RVec(1 * Unit, 2 * Unit, 3 * Unit)
    /\ size = RVec(10 * Unit, 20 * Unit, 30 * Unit)
    /\ stream = << >>
    /\ pc = "writing"
    /\ index = 0
    /\ status = "iterating"
    /\ iterLog = << >>
    /\ internLog = << >>
    /\ codecLog = << >>
    /\ pbcLog = << >>

NextTail == EncodeTail

SpecTail == InitTail /\ [][NextTail]_vars

----------------------------------------------------------------------------
(* Vocabulary of the grouping claims, stated on the atom list itself and   *)
(* not through the iterator's own loop.                                    *)

\* the template of the residue of the atom at (0-based) i
TemplateAt(i) == resHeap[atoms[i + 1].residue].atoms

\* the atom at i + j exists and its name is slot j of the template of the atom at i
SlotMatch(i, j) ==
    /\ i + j < Len(atoms)
    /\ j < Len(TemplateAt(i))
    /\ atoms[i + j + 1].name = TemplateAt(i)[j + 1]

\* the atoms from i on fill the whole template of the atom at i
FullMatch(i) ==
    /\ i < Len(atoms)
    /\ Len(TemplateAt(i)) >= 1
    /\ \A j \in 0..(Len(TemplateAt(i)) - 1) : SlotMatch(i, j)

\* slots 0..j-1 match from i on and slot j is the first that does not
FirstFailureAt(i, j) ==
    /\ i < Len(atoms)
    /\ j \in 1..(Len(TemplateAt(i)) - 1)
    /\ \A m \in 0..(j - 1) : SlotMatch(i, m)
    /\ ~SlotMatch(i, j)

Calls == 1..Len(iterLog)
ReturnedNone == \E k \in Calls : iterLog[k].item = ItemNone
Emitted == { k \in Calls : iterLog[k].item.tag \in {"Ok", "Err"} }

\* atoms consumed by one result: the group length of an Ok, the advance of an Err
ConsumedBy(e) ==
    IF e.item.tag = "Ok" THEN Len(e.item.atoms)
    ELSE IF e.item.tag = "Err" THEN e.end - e.start
    ELSE 0

RECURSIVE ConsumedUpTo(_)
ConsumedUpTo(k) == IF k = 0 THEN 0 ELSE ConsumedUpTo(k - 1) + ConsumedBy(iterLog[k])

\* the items returned so far, in order
Items == [k \in Calls |-> iterLog[k].item]

----------------------------------------------------------------------------
(* C1: for any finite atom list, repeated calls of next end with None: as  *)
(* long as None has not been returned another call can be made, at most    *)
(* len(atoms) results are emitted, and once None is returned the atoms     *)
(* consumed by the emitted results add up to len(atoms).                   *)
C1_TerminatesConsumingAll ==
    /\ ReturnedNone \/ ENABLED IterNext
    /\ Cardinality(Emitted) <= Len(atoms)
    /\ ReturnedNone => ConsumedUpTo(Len(iterLog)) = Len(atoms)

(* C2: a call of next at a cursor i where the atoms fill the whole template *)
(* of atoms[i] returns Ok with exactly atoms[i..i+L) in list order and      *)
(* moves the cursor to i+L, and each call starts where the previous one     *)
(* ended, whatever the order of the residues list.                          *)
C2_CompleteGroupYielded ==
    \A k \in Calls :
        LET e == iterLog[k] IN
        /\ FullMatch(e.start) =>
              /\ e.item = ItemOk(Slice(atoms, e.start, Len(TemplateAt(e.start))))
              /\ e.end = e.start + Len(TemplateAt(e.start))
        /\ k > 1 => e.start = iterLog[k - 1].end

\* two consecutive groups of different residues and template lengths were yielded,
\* with the residues list in the reverse order of their appearance among the atoms
C2_Witness ==
    /\ residues = <<3, 2, 1>>
    /\ \E k \in Calls :
          /\ k + 1 \in Calls
          /\ iterLog[k].item.tag = "Ok"
          /\ iterLog[k + 1].item.tag = "Ok"
          /\ iterLog[k].item.atoms[1].residue = 1
          /\ iterLog[k + 1].item.atoms[1].residue = 2
          /\ Len(iterLog[k].item.atoms) = 2
          /\ Len(iterLog[k + 1].item.atoms) = 3

(* C3: a call of next at a cursor i whose atom's name is not slot 0 of its *)
(* own residue's template returns Err carrying i and moves the cursor to   *)
(* i+1, where the next call starts.                                        *)
C3_WrongFirstAtom ==
    \A k \in Calls :
        LET e == iterLog[k] IN
        (/\ e.start < Len(atoms)
         /\ Len(TemplateAt(e.start)) >= 1
         /\ ~SlotMatch(e.start, 0))
        => /\ e.item = ItemErr(e.start)
           /\ e.end = e.start + 1
           /\ (k + 1 \in Calls => iterLog[k + 1].start = e.start + 1)

\* an attempt not at the start of the list met a wrong first atom, and a later call followed
C3_Witness ==
    \E k \in Calls :
        /\ iterLog[k].start > 0
        /\ iterLog[k].start < Len(atoms)
        /\ Len(TemplateAt(iterLog[k].start)) >= 1
        /\ ~SlotMatch(iterLog[k].start, 0)
        /\ iterLog[k].item.tag = "Err"
        /\ k + 1 \in Calls

(* C4: a call of next at a cursor i where slot 0 matches and the first     *)
(* failure of the walk is at j (atom i+j missing, or not slot j) returns   *)
(* Err carrying i and moves the cursor by exactly j.                       *)
C4_MidTemplateFailure ==
    \A k \in Calls :
        LET e == iterLog[k] IN
        \A j \in 1..Len(atoms) :
            FirstFailureAt(e.start, j) =>
                /\ e.item = ItemErr(e.start)
                /\ e.end = e.start + j

\* both kinds of failure happened at j = 2 after an earlier result: a wrong atom
\* and a missing atom
C4_Witness ==
    /\ \E k \in Calls :
          /\ iterLog[k].start > 0
          /\ FirstFailureAt(iterLog[k].start, 2)
          /\ iterLog[k].start + 2 < Len(atoms)
          /\ iterLog[k].item.tag = "Err"
    /\ \E k \in Calls :
          /\ FirstFailureAt(iterLog[k].start, 1)
          /\ iterLog[k].start + 1 = Len(atoms)
          /\ iterLog[k].item.tag = "Err"

\* template [AT1, AT2] of one residue and the atoms AT1 AT2 AT1 AT1 AT1 AT2
ScenarioAtoms ==
    MakeAtoms(<< <<1, 1>>, <<2, 1>>, <<1, 1>>, <<1, 1>>, <<1, 1>>, <<2, 1>> >>)

(* C5 as claimed: on template [AT1, AT2] and the atoms AT1 AT2 AT1 AT1 AT1 *)
(* AT2 the iterator yields exactly three results and then None:            *)
(* Ok([AT1, AT2]), Err(2), Ok([AT1, AT2]), the cursor ending at 6.         *)
C5_ScenarioThreeResults ==
    (atoms = ScenarioAtoms /\ ReturnedNone) =>
        /\ Len(Items) >= 4
        /\ SubSeq(Items, 1, 4) =
              << ItemOk(Slice(atoms, 0, 2)), ItemErr(2), ItemOk(Slice(atoms, 4, 2)), ItemNone >>
        /\ index = 6

(* C5 as amended: on that input the iterator yields exactly four results   *)
(* and then None: Ok(atoms 0..1), Err(2), Err(3), Ok(atoms 4..5), the      *)
(* cursor ending at 6.                                                     *)
C5_ScenarioFourResults ==
    (atoms = ScenarioAtoms /\ ReturnedNone) =>
        /\ Len(Items) >= 5
        /\ SubSeq(Items, 1, 5) =
              << ItemOk(Slice(atoms, 0, 2)), ItemErr(2), ItemErr(3),
                 ItemOk(Slice(atoms, 4, 2)), ItemNone >>
        /\ \A k \in Calls : k > 5 => iterLog[k].item = ItemNone
        /\ index = 6

\* the scenario was iterated until None
C5_Witness == atoms = ScenarioAtoms /\ ReturnedNone /\ index = 6

(* C6: when the atoms from i match only the first j slots (1 <= j < L) of  *)
(* their template and the atoms from i+j fill a whole template, the call   *)
(* at i returns Err, the iterator can be called again, and the very next   *)
(* result is Ok with exactly the atoms of that template match from i+j.    *)
C6_RecoversAfterIncomplete ==
    \A k \in Calls :
        LET e == iterLog[k] IN
        \A j \in 1..Len(atoms) :
            (FirstFailureAt(e.start, j) /\ FullMatch(e.start + j)) =>
                /\ e.item = ItemErr(e.start)
                /\ k = Len(iterLog) => status = "iterating"
                /\ k + 1 \in Calls =>
                      iterLog[k + 1].item =
                          ItemOk(Slice(atoms, e.start + j, Len(TemplateAt(e.start + j))))

\* an incomplete residue was followed by the Ok of the complete one after it
C6_Witness ==
    \E k \in Calls :
        \E j \in 1..Len(atoms) :
            /\ FirstFailureAt(iterLog[k].start, j)
            /\ FullMatch(iterLog[k].start + j)
            /\ iterLog[k].item.tag = "Err"
            /\ k + 1 \in Calls
            /\ iterLog[k + 1].item.tag = "Ok"

----------------------------------------------------------------------------
(* Vocabulary of the interning claims. *)

Lookups == 1..Len(internLog)

\* the text held by the name handle a, and by the name of the residue r
TextOf(a) == names[a]
ResidueText(r) == names[resHeap[r].name]

(* C7: two lookups return the identical residue handle exactly when they   *)
(* use the same residue name text, and the identical atom-name handle      *)
(* exactly when they use the same atom name text under the same residue    *)
(* name; so equal texts in one scope share a handle, different texts never *)
(* do, and one atom text under two residues has two handles.               *)
C7_InterningIdentity ==
    \A p \in Lookups, q \in Lookups :
        /\ (internLog[p].residue = internLog[q].residue)
              <=> (internLog[p].residue_name = internLog[q].residue_name)
        /\ (internLog[p].atom = internLog[q].atom)
              <=> (/\ internLog[p].residue_name = internLog[q].residue_name
                   /\ internLog[p].atom_name = internLog[q].atom_name)

\* a repeated lookup, a lookup of another atom text in the same residue and a
\* lookup of the same atom text in another residue have all been made
C7_Witness ==
    \E p \in Lookups, q \in Lookups, u \in Lookups, w \in Lookups :
        /\ p < q /\ q < u /\ u < w
        /\ internLog[p].residue_name = internLog[q].residue_name
        /\ internLog[p].atom_name = internLog[q].atom_name
        /\ internLog[p].atom = internLog[q].atom
        /\ internLog[u].residue_name = internLog[p].residue_name
        /\ internLog[u].atom_name # internLog[p].atom_name
        /\ internLog[w].residue_name # internLog[p].residue_name
        /\ internLog[w].atom_name = internLog[p].atom_name
        /\ internLog[w].atom # internLog[p].atom

(* C8: after any sequence of get_or_insert_atom_and_residue calls from an  *)
(* empty residue list, no two residues of the list have equal name text    *)
(* and no residue's atom list holds two entries of equal text.             *)
C8_NoDuplicateTexts ==
    /\ \A i \in 1..Len(residues), j \in 1..Len(residues) :
          i # j => ResidueText(residues[i]) # ResidueText(residues[j])
    /\ \A i \in 1..Len(residues) :
          LET as == resHeap[residues[i]].atoms IN
          \A m \in 1..Len(as), n \in 1..Len(as) :
              m # n => TextOf(as[m]) # TextOf(as[n])

\* two residues are listed, one with two atom names, after a lookup that found
\* its residue and its atom already there
C8_Witness ==
    /\ Len(residues) >= 2
    /\ \E i \in 1..Len(residues) : Len(resHeap[residues[i]].atoms) >= 2
    /\ \E p \in Lookups, q \in Lookups :
          /\ p < q
          /\ internLog[p].residue_name = internLog[q].residue_name
          /\ internLog[p].atom_name = internLog[q].atom_name

----------------------------------------------------------------------------
(* Vocabulary of the claims about reading and writing.                     *)

CodecOps == 1..Len(codecLog)

\* the last call made was a decode that returned Ok: the Conf held is the one it
\* returned and stream still holds the bytes it read
DecodedOk ==
    /\ codecLog # << >>
    /\ codecLog[Len(codecLog)].op = "decode"
    /\ codecLog[Len(codecLog)].result = "Ok"

\* the lines of a text, each with its newline
RECURSIVE LinesOf(_)
LinesOf(text) ==
    IF text = << >> THEN << >>
    ELSE <<ReadLine(text).buf>> \o LinesOf(ReadLine(text).rest)

\* the residue-name and atom-name fields of the atom records of the bytes read
InputRecords ==
    LET lines == LinesOf(stream) IN
    [k \in 1..(Len(lines) - 3) |->
        [residue_name |-> Trim(Range(lines[k + 2], 5, 10)),
         atom_name |-> Trim(Range(lines[k + 2], 10, 15))]]

\* the distinct elements of s in the order of their first occurrence
RECURSIVE FirstSeen(_, _)
FirstSeen(s, seen) ==
    IF s = << >> THEN << >>
    ELSE IF Head(s) \in seen THEN FirstSeen(Tail(s), seen)
    ELSE <<Head(s)>> \o FirstSeen(Tail(s), seen \cup {Head(s)})

\* the residue names of the records, and the atom names of the records of one
\* residue name, in record order
RecordResidueNames == [k \in 1..Len(InputRecords) |-> InputRecords[k].residue_name]
RecordAtomNamesOf(residue_name) ==
    LET IsOf(rec) == rec.residue_name = residue_name
        recs == SelectSeq(InputRecords, IsOf)
    IN  [k \in 1..Len(recs) |-> recs[k].atom_name]

(* C9: in the Conf a successful decode returns, every atom's residue is    *)
(* (by address) an entry of the residues list and every atom's name is (by *)
(* address) an entry of that residue's atom list; the residues list holds  *)
(* the residue names of the records in first-seen order, and each          *)
(* residue's atom list holds the atom names of its records in first-seen   *)
(* order.                                                                  *)
C9_DecodedGraph ==
    DecodedOk =>
        /\ Len(atoms) = Len(InputRecords)
        /\ \A k \in 1..Len(atoms) :
              /\ \E m \in 1..Len(residues) : ptr_eq(residues[m], atoms[k].residue)
              /\ \E j \in 1..Len(resHeap[atoms[k].residue].atoms) :
                    ptr_eq(resHeap[atoms[k].residue].atoms[j], atoms[k].name)
              /\ ResidueText(atoms[k].residue) = InputRecords[k].residue_name
              /\ TextOf(atoms[k].name) = InputRecords[k].atom_name
        /\ [m \in 1..Len(residues) |-> ResidueText(residues[m])]
              = FirstSeen(RecordResidueNames, {})
        /\ \A m \in 1..Len(residues) :
              [j \in 1..Len(resHeap[residues[m]].atoms) |->
                    TextOf(resHeap[residues[m]].atoms[j])]
                 = FirstSeen(RecordAtomNamesOf(ResidueText(residues[m])), {})

\* a file was decoded whose records name a residue, then another, then the first
\* again with an atom name it had and with one it had not
C9_Witness ==
    /\ DecodedOk
    /\ Len(residues) = 2
    /\ \E a \in 1..Len(atoms), b \in 1..Len(atoms), c \in 1..Len(atoms) :
          /\ a < b /\ b < c
          /\ atoms[a].residue = atoms[c].residue
          /\ atoms[a].residue # atoms[b].residue
          /\ atoms[a].name # atoms[c].name
    /\ \E a \in 1..Len(atoms), b \in 1..Len(atoms) :
          a < b /\ atoms[a].name = atoms[b].name

\* the atoms from i on are whole groups, each filling its residue's template
RECURSIVE WellFormedFrom(_)
WellFormedFrom(i) ==
    IF i >= Len(atoms) THEN TRUE
    ELSE FullMatch(i) /\ WellFormedFrom(i + Len(TemplateAt(i)))

\* the last call made was an encode of a Conf of whole groups: it returned Ok
EncodeSucceeds ==
    (/\ codecLog # << >>
     /\ codecLog[Len(codecLog)].op = "encode"
     /\ WellFormedFrom(0))
        => codecLog[Len(codecLog)].result = "Ok"

\* call k is an encode that returned Ok and call k + 1 the decode of what it wrote
EncodedThenDecoded(k) ==
    /\ k \in CodecOps /\ k + 1 \in CodecOps
    /\ codecLog[k].op = "encode"
    /\ codecLog[k].result = "Ok"
    /\ codecLog[k + 1].op = "decode"

\* dec is orig rounded to prec decimals
SameAt(orig, dec, prec) ==
    LET ulp == Pow10(Decimals - prec) IN
    /\ dec % ulp = 0
    /\ dec >= orig - ulp \div 2
    /\ dec <= orig + ulp \div 2

SameRVecAt(orig, dec, prec) ==
    /\ SameAt(orig.x, dec.x, prec)
    /\ SameAt(orig.y, dec.y, prec)
    /\ SameAt(orig.z, dec.z, prec)

\* the Conf decoded says what the Conf encoded said
SameConf(orig, dec) ==
    /\ dec.title = orig.title
    /\ Len(dec.atoms) = Len(orig.atoms)
    /\ \A k \in 1..Len(orig.atoms) :
          /\ dec.atoms[k].atom_name = orig.atoms[k].atom_name
          /\ dec.atoms[k].residue_name = orig.atoms[k].residue_name
          /\ SameRVecAt(orig.atoms[k].position, dec.atoms[k].position, 3)
          /\ (dec.atoms[k].velocity = None) <=> (orig.atoms[k].velocity = None)
          /\ orig.atoms[k].velocity # None /\ dec.atoms[k].velocity # None
                => SameRVecAt(orig.atoms[k].velocity[1], dec.atoms[k].velocity[1], 4)

\* a text that is one line's worth and keeps its ends when trimmed
KeptByTrim(text) ==
    /\ Trim(text) = text
    /\ \A k \in 1..Len(text) : text[k] # "\n"

FitsRVec(v, prec, width) ==
    /\ Len(FormatFixed(v.x, prec)) <= width
    /\ Len(FormatFixed(v.y, prec)) <= width
    /\ Len(FormatFixed(v.z, prec)) <= width

\* what the fixed columns can hold of a Conf: a title and names that trimming
\* keeps, names of at most five characters, numbers of at most eight
FitsColumns(conf) ==
    /\ KeptByTrim(conf.title)
    /\ \A k \in 1..Len(conf.atoms) :
          /\ KeptByTrim(conf.atoms[k].atom_name)
          /\ KeptByTrim(conf.atoms[k].residue_name)
          /\ Len(conf.atoms[k].atom_name) <= 5
          /\ Len(conf.atoms[k].residue_name) <= 5
          /\ FitsRVec(conf.atoms[k].position, 3, 8)
          /\ conf.atoms[k].velocity # None => FitsRVec(conf.atoms[k].velocity[1], 4, 8)

(* C10 as stated: encoding a Conf of whole groups succeeds, decoding what  *)
(* was written succeeds, and the Conf decoded has the same title, as many  *)
(* atoms and, atom by atom, the same name texts, the same position at 3    *)
(* decimals and the same velocity at 4 decimals, present when the          *)
(* original's was.                                                         *)
C10_RoundTrip ==
    /\ EncodeSucceeds
    /\ \A k \in CodecOps :
          EncodedThenDecoded(k) =>
              /\ codecLog[k + 1].result = "Ok"
              /\ SameConf(codecLog[k].conf, codecLog[k + 1].conf)

(* C10 as amended: the same, for the Confs whose title and names have no   *)
(* leading or trailing whitespace and no line break, whose names have at   *)
(* most 5 characters and whose positions and velocities take at most 8     *)
(* characters at 3 and at 4 decimals.                                      *)
C10_RoundTripWithinColumns ==
    /\ EncodeSucceeds
    /\ \A k \in CodecOps :
          EncodedThenDecoded(k) /\ FitsColumns(codecLog[k].conf) =>
              /\ codecLog[k + 1].result = "Ok"
              /\ SameConf(codecLog[k].conf, codecLog[k + 1].conf)

\* a Conf of two residues was encoded and decoded, with positions that rounding
\* changed and with a velocity on some atoms only
C10_Witness ==
    \E k \in CodecOps :
        /\ EncodedThenDecoded(k)
        /\ FitsColumns(codecLog[k].conf)
        /\ codecLog[k + 1].result = "Ok"
        /\ Len(codecLog[k].conf.atoms) >= 3
        /\ \E a \in 1..Len(codecLog[k].conf.atoms), b \in 1..Len(codecLog[k].conf.atoms) :
              /\ codecLog[k].conf.atoms[a].residue_name # codecLog[k].conf.atoms[b].residue_name
              /\ codecLog[k].conf.atoms[a].velocity # None
              /\ codecLog[k].conf.atoms[b].velocity = None
        /\ \E a \in 1..Len(codecLog[k].conf.atoms) :
              codecLog[k].conf.atoms[a].position # codecLog[k + 1].conf.atoms[a].position

----------------------------------------------------------------------------
(* Vocabulary of the claims about files that are not well formed.  After a *)
(* decode, stream still holds the bytes that were read.                    *)

LastOp == codecLog[Len(codecLog)]

\* the last call made was a decode
LastIsDecode == codecLog # << >> /\ LastOp.op = "decode"

FileLines == LinesOf(stream)

\* a line with a letter in its name columns [5,15): an atom record, whole or not
RecordLike(line) ==
    \E k \in 6..15 :
        /\ k <= Len(line)
        /\ ~IsDigit(line[k])
        /\ ~IsWhitespace(line[k])
        /\ line[k] \notin {".", "-", "+"}

\* the number on line 2, None when line 2 is missing or is no number
DeclaredCount ==
    IF Len(FileLines) >= 2 THEN ParseUsize(Trim(FileLines[2])) ELSE None

RecordsPresent == Cardinality({ k \in 3..Len(FileLines) : RecordLike(FileLines[k]) })

\* the line after the records is there
BoxLinePresent == Len(FileLines) >= 3 + RecordsPresent

\* how many tokens of a line are numbers
ParsableNumbers(line) ==
    Cardinality({ k \in 1..Len(SplitWhitespace(line)) :
                     ParseFloat(SplitWhitespace(line)[k]) # None })

MalformedFile ==
    \/ DeclaredCount = None
    \/ DeclaredCount[1] # RecordsPresent
    \/ ~BoxLinePresent
    \/ ParsableNumbers(FileLines[3 + RecordsPresent]) < 3

(* C11: decode of a file whose atom-count line is missing or is no number, *)
(* whose atom count is not the number of atom records present, whose       *)
(* box-size line is missing or whose box-size line has fewer than three    *)
(* parsable numbers returns an error: it returns no Conf and does not      *)
(* abort.                                                                  *)
C11_MalformedIsError ==
    LastIsDecode /\ MalformedFile => LastOp.result = "Err"

----------------------------------------------------------------------------
(* Vocabulary of the claims about the result of an encode.  After an       *)
(* encode the Conf held is the one that was written.                       *)

\* the last call made was an encode
LastIsEncode == codecLog # << >> /\ LastOp.op = "encode"

\* with g groups complete before the atom at i: 0 when the atoms from i on are
\* complete groups, -1 when the iterator aborts before it has returned an Err
\* (the atom at the cursor belongs to a residue that declares no atom), else the
\* ordinal (from 1) of the first group for which the iterator returns Err
RECURSIVE FirstBadGroup(_, _)
FirstBadGroup(i, g) ==
    IF i >= Len(atoms) THEN 0
    ELSE IF FullMatch(i) THEN FirstBadGroup(i + Len(TemplateAt(i)), g + 1)
    ELSE IF TemplateAt(i) = << >> THEN 0 - 1
    ELSE g + 1

(* C12: encode returns Ok only if every group of the Conf is complete;     *)
(* when the iterator returns an Err it returns BadResidue(r), r being the  *)
(* ordinal from 1 of the first group that is not complete.                 *)
C12_EncodeResult ==
    LastIsEncode =>
        /\ LastOp.result = "Ok" => FirstBadGroup(0, 0) = 0
        /\ FirstBadGroup(0, 0) > 0 =>
              /\ LastOp.result = "BadResidue"
              /\ LastOp.number = FirstBadGroup(0, 0)

\* a Conf of three atoms was encoded whose first group is complete and whose
\* second is not
C12_Witness ==
    /\ LastIsEncode
    /\ Len(atoms) = 3
    /\ FullMatch(0)
    /\ FirstBadGroup(0, 0) = 2
    /\ LastOp.result = "BadResidue"

----------------------------------------------------------------------------
(* Vocabulary of the claims about the records written.                     *)

\* the atom records written by the last encode, in order: what was written but
\* the box line, and in a whole file the title and the atom count
WrittenRecords(header) ==
    SubSeq(LinesOf(stream), header + 1, Len(LinesOf(stream)) - 1)

\* the group (from 1) of atom j (from 1) in a list of complete groups, the group
\* that starts at the atom at i being group g + 1
RECURSIVE GroupOf(_, _, _)
GroupOf(j, i, g) ==
    IF j <= i + Len(TemplateAt(i)) THEN g + 1
    ELSE GroupOf(j, i + Len(TemplateAt(i)), g + 1)

\* the number a five-column field holds, None when it holds none
FieldNumber(line, from) == ParseUsize(Trim(Range(line, from, from + 5)))

(* C13: after a successful encode the k-th atom record of the file carries *)
(* the atom ordinal k mod 100000 and a record of the g-th group carries    *)
(* the residue ordinal g mod 100000; the record of atom 100000 reads 0 in  *)
(* its atom-ordinal field and its name fields are what they are on every   *)
(* other record.                                                           *)
C13_OrdinalsWrap ==
    LastIsEncode /\ LastOp.result = "Ok" =>
        /\ Len(WrittenRecords(0)) = Len(atoms)
        /\ \A j \in 1..Len(atoms) :
              /\ FieldNumber(WrittenRecords(0)[j], 15) = Some((atomsWritten + j) % 100000)
              /\ FieldNumber(WrittenRecords(0)[j], 0)
                    = Some((groupsWritten + GroupOf(j, 0, 0)) % 100000)
              /\ Range(WrittenRecords(0)[j], 5, 10)
                    = PadRight(LastOp.conf.atoms[j].residue_name, 5)
              /\ Range(WrittenRecords(0)[j], 10, 15)
                    = PadLeft(LastOp.conf.atoms[j].atom_name, 5)
              /\ atomsWritten + j = 100000 =>
                    Range(WrittenRecords(0)[j], 15, 20) = <<" ", " ", " ", " ", "0">>

\* atom 100000 was written as the second atom of group 100000, and a group after it
C13_Witness ==
    /\ LastIsEncode /\ LastOp.result = "Ok"
    /\ Len(atoms) = 3
    /\ atomsWritten + 2 = 100000
    /\ groupsWritten + GroupOf(2, 0, 0) = 100000
    /\ GroupOf(1, 0, 0) = 1
    /\ GroupOf(3, 0, 0) = 2

\* field is text followed by spaces only, or preceded by spaces only
LeftAligned(field, text) ==
    /\ Len(text) <= Len(field)
    /\ SubSeq(field, 1, Len(text)) = text
    /\ \A k \in (Len(text) + 1)..Len(field) : field[k] = " "
RightAligned(field, text) ==
    /\ Len(text) <= Len(field)
    /\ SubSeq(field, Len(field) - Len(text) + 1, Len(field)) = text
    /\ \A k \in 1..(Len(field) - Len(text)) : field[k] = " "

\* the 8 columns from `from` on hold the number v at prec decimals
FieldHolds(line, from, v, prec) ==
    /\ Len(line) >= from + 8
    /\ ParseFloat(Trim(Range(line, from, from + 8))) # None
    /\ SameAt(v, ParseFloat(Trim(Range(line, from, from + 8)))[1], prec)

\* the three fields from `from` on hold the vector v
FieldsHold(line, from, v, prec) ==
    /\ FieldHolds(line, from, v.x, prec)
    /\ FieldHolds(line, from + 8, v.y, prec)
    /\ FieldHolds(line, from + 16, v.z, prec)

\* the record (a line with its newline) of atom j of the Conf written has the
\* columns that parse_atom_line cuts
RecordLayout(line, j, atom) ==
    /\ Len(line) = (IF atom.velocity = None THEN 44 ELSE 68) + 1
    /\ line[Len(line)] = "\n"
    /\ FieldNumber(line, 0) = Some(GroupOf(j, 0, 0) % 100000)
    /\ LeftAligned(Range(line, 5, 10), atom.residue_name)
    /\ RightAligned(Range(line, 10, 15), atom.atom_name)
    /\ FieldNumber(line, 15) = Some(j % 100000)
    /\ FieldsHold(line, 20, atom.position, 3)
    /\ atom.velocity # None => FieldsHold(line, 44, atom.velocity[1], 4)

\* the names and numbers of a Conf are no wider than their columns
WidthsFit(conf) ==
    \A k \in 1..Len(conf.atoms) :
        /\ Len(conf.atoms[k].atom_name) <= 5
        /\ Len(conf.atoms[k].residue_name) <= 5
        /\ FitsRVec(conf.atoms[k].position, 3, 8)
        /\ conf.atoms[k].velocity # None => FitsRVec(conf.atoms[k].velocity[1], 4, 8)

(* C14 as stated: every atom record a successful encode writes has the     *)
(* residue ordinal in columns [0,5), the residue name in [5,10), the atom  *)
(* name in [10,15), the atom ordinal in [15,20), three 8-character         *)
(* position fields in [20,44) and, exactly when the atom has a velocity,   *)
(* three 8-character velocity fields in [44,68).                           *)
C14_ColumnLayout ==
    LastIsEncode /\ LastOp.result = "Ok" =>
        /\ Len(WrittenRecords(2)) = Len(atoms)
        /\ \A j \in 1..Len(atoms) :
              RecordLayout(WrittenRecords(2)[j], j, LastOp.conf.atoms[j])

\* the same for the Confs whose names have at most 5 characters and whose
\* positions and velocities take at most 8 characters at 3 and at 4 decimals
ColumnLayoutWithinWidths ==
    LastIsEncode /\ LastOp.result = "Ok" /\ WidthsFit(LastOp.conf) =>
        /\ Len(WrittenRecords(2)) = Len(atoms)
        /\ \A j \in 1..Len(atoms) :
              RecordLayout(WrittenRecords(2)[j], j, LastOp.conf.atoms[j])

----------------------------------------------------------------------------
(* Periodic images (conf.rs, rvec.rs).  Conf::pbc_multiply builds a new    *)
(* Conf; the model replaces the Conf it holds by the new one and logs both.*)
(* The coordinates stay far below F64Limit.                                *)

MaxPbcAtoms == 3
MaxMultiple == 2
MaxPbcCalls == 1

\* the longest atom list a call may build
MaxPbcResult == 24

\* impl Add for RVec
RVecAdd(a, b) == RVec(a.x + b.x, a.y + b.y, a.z + b.z)

\* RVec::pbc_multiply
rvec_pbc_multiply(v, nx, ny, nz) == RVec(v.x * nx, v.y * ny, v.z * nz)

\* the Atom pushed for one atom of self: the handles cloned, the position moved
PbcImage(atom, dr) ==
    Atom(atom.name, atom.residue, RVecAdd(atom.position, dr), atom.velocity)

\* the three nested loops over ix, iy, iz (from 1) and the loop over the atoms
RECURSIVE PbcLoop(_, _, _, _, _, _, _, _, _)

\* the loops pushing the atoms of every block from the last to the first
PbcLoopBackwards(ats, size_, nx, ny, nz, ix, iy, iz, out) ==
    IF ix > nx THEN out
    ELSE IF iy > ny THEN PbcLoop(ats, size_, nx, ny, nz, ix + 1, 1, 1, out)
    ELSE IF iz > nz THEN PbcLoop(ats, size_, nx, ny, nz, ix, iy + 1, 1, out)
    ELSE PbcLoop(ats, size_, nx, ny, nz, ix, iy, iz + 1,
                 out \o [k \in 1..Len(ats) |->
                            PbcImage(ats[Len(ats) + 1 - k],
                                     rvec_pbc_multiply(size_, ix - 1, iy - 1, iz - 1))])

\* the loops with the offsets taken from ix, iy, iz as they are
PbcLoopFromOne(ats, size_, nx, ny, nz, ix, iy, iz, out) ==
    IF ix > nx THEN out
    ELSE IF iy > ny THEN PbcLoop(ats, size_, nx, ny, nz, ix + 1, 1, 1, out)
    ELSE IF iz > nz THEN PbcLoop(ats, size_, nx, ny, nz, ix, iy + 1, 1, out)
    ELSE PbcLoop(ats, size_, nx, ny, nz, ix, iy, iz + 1,
                 out \o [k \in 1..Len(ats) |->
                            PbcImage(ats[k], rvec_pbc_multiply(size_, ix, iy, iz))])

PbcLoop(ats, size_, nx, ny, nz, ix, iy, iz, out) ==
    IF ix > nx THEN out
    ELSE IF iy > ny THEN PbcLoop(ats, size_, nx, ny, nz, ix + 1, 1, 1, out)
    ELSE IF iz > nz THEN PbcLoop(ats, size_, nx, ny, nz, ix, iy + 1, 1, out)
    ELSE PbcLoop(ats, size_, nx, ny, nz, ix, iy, iz + 1,
                 out \o [k \in 1..Len(ats) |->
                            PbcImage(ats[k],
                                     rvec_pbc_multiply(size_, ix - 1, iy - 1, iz - 1))])

\* Conf::pbc_multiply
pbc_multiply(title_, origin_, size_, ress, ats, nx, ny, nz) ==
    [title |-> title_,
     origin |-> origin_,
     size |-> rvec_pbc_multiply(size_, nx, ny, nz),
     residues |-> ress,
     atoms |-> PbcLoop(ats, size_, nx, ny, nz, 1, 1, 1, << >>)]

Multiplied(n, before, after) ==
    /\ title' = after.title
    /\ origin' = after.origin
    /\ size' = after.size
    /\ residues' = after.residues
    /\ atoms' = after.atoms
    /\ pbcLog' = Append(pbcLog, [n |-> n, before |-> before, after |-> after])

PbcMultiply ==
    /\ pc = "conf"
    /\ Len(pbcLog) < MaxPbcCalls
    /\ \E nx \in 0..MaxMultiple, ny \in 0..MaxMultiple, nz \in 0..MaxMultiple :
          /\ Len(atoms) * nx * ny * nz <= MaxPbcResult
          /\ Multiplied(<<nx, ny, nz>>,
                     [title |-> title, origin |-> origin, size |-> size,
                      residues |-> residues, atoms |-> atoms],
                     pbc_multiply(title, origin, size, residues, atoms, nx, ny, nz))
    /\ UNCHANGED <<heapVars, iterVars, internVars, codecVars, writerVars>>

InitPbc ==
    /\ names = CodecNames
    /\ resHeap = CodecResidues
    /\ residues = <<1, 2, 3, 4, 5>>
    /\ \E ks \in SeqsUpTo(TailKinds, MaxPbcAtoms) : atoms = MakeConfAtoms(ks, "mixed")
    /\ title = <<"A", " ", "t", "i", "t", "l", "e">>
    /\ origin = RVec(1 * Unit, 2 * Unit, 3 * Unit)
    /\ size = RVec(10 * Unit, 2050000, 7)
    /\ stream = << >>
    /\ pc = "conf"
    /\ index = 0
    /\ status = "iterating"
    /\ iterLog = << >>
    /\ internLog = << >>
    /\ codecLog = << >>
    /\ atomsWritten = 0
    /\ groupsWritten = 0
    /\ pbcLog = << >>

NextPbc == PbcMultiply

SpecPbc == InitPbc /\ [][NextPbc]_vars

----------------------------------------------------------------------------
(* Claims about pbc_multiply.                                              *)

\* the place (from 1) in the new atom list of the k-th atom of the block of the
\* offsets (ix, iy, iz): blocks in the order iz fastest, then iy, then ix
ImagePlace(n, count, ix, iy, iz, k) ==
    (((ix - 1) * n[2] + (iy - 1)) * n[3] + (iz - 1)) * count + k

ImageOf(e, ix, iy, iz, k) ==
    e.after.atoms[ImagePlace(e.n, Len(e.before.atoms), ix, iy, iz, k)]

PbcResult(e) ==
    /\ e.after.size = RVec(e.before.size.x * e.n[1], e.before.size.y * e.n[2],
                           e.before.size.z * e.n[3])
    /\ Len(e.after.atoms) = Len(e.before.atoms) * e.n[1] * e.n[2] * e.n[3]
    /\ \A ix \in 1..e.n[1], iy \in 1..e.n[2], iz \in 1..e.n[3],
          k \in 1..Len(e.before.atoms) :
          /\ ImageOf(e, ix, iy, iz, k).name = e.before.atoms[k].name
          /\ ImageOf(e, ix, iy, iz, k).residue = e.before.atoms[k].residue
          /\ ImageOf(e, ix, iy, iz, k).position.x
                = e.before.atoms[k].position.x + e.before.size.x * (ix - 1)
          /\ ImageOf(e, ix, iy, iz, k).position.y
                = e.before.atoms[k].position.y + e.before.size.y * (iy - 1)
          /\ ImageOf(e, ix, iy, iz, k).position.z
                = e.before.atoms[k].position.z + e.before.size.z * (iz - 1)
          /\ ImageOf(e, ix, iy, iz, k).velocity = e.before.atoms[k].velocity

\* C15: pbc_multiply(nx, ny, nz) returns a Conf whose size is the size of the
\* original scaled component by component, and whose atoms are one block per
\* offsets (ix, iy, iz) from (1, 1, 1) to (nx, ny, nz), iz varying fastest,
\* then iy, then ix: each block holds every original atom in order, with the
\* same name and residue handles, the position moved by the original size
\* scaled by (ix-1, iy-1, iz-1), and the same velocity.
C15_PbcMultiply == \A i \in 1..Len(pbcLog) : PbcResult(pbcLog[i])

\* a Conf of at least two atoms, one of them without a velocity, multiplied by
\* at least two images in y and in z and by another number of images in x
C15_Witness ==
    \E i \in 1..Len(pbcLog) :
        /\ Len(pbcLog[i].before.atoms) >= 2
        /\ pbcLog[i].n[1] >= 1 /\ pbcLog[i].n[2] >= 2 /\ pbcLog[i].n[3] >= 2
        /\ pbcLog[i].n[1] # pbcLog[i].n[2]
        /\ pbcLog[i].before.size.x > 0
        /\ \E k \in 1..2 : pbcLog[i].before.atoms[k].velocity = None
        /\ PbcResult(pbcLog[i])

----------------------------------------------------------------------------
(* Claims about the line number of a decode error.                         *)

\* the line k (from 1: the title is line 1, the atom count line 2, the first
\* atom record line 3) is one of the declared atom records and is missing or is
\* no atom record
BadRecordLine(k) ==
    /\ DeclaredCount # None
    /\ k >= 3
    /\ k <= 2 + DeclaredCount[1]
    /\ (k > Len(FileLines) \/ ~parse_atom_line(FileLines[k]).ok)

\* the first such line, 0 when there is none
OffendingLine ==
    IF \E k \in 3..(Len(FileLines) + 1) : BadRecordLine(k)
    THEN Min({ k \in 3..(Len(FileLines) + 1) : BadRecordLine(k) })
    ELSE 0

(* C16: a decode error caused by a missing, too-short or malformed atom    *)
(* record carries the line number of the offending line, counted from 1:   *)
(* the title is line 1, the atom count line 2, the first atom record       *)
(* line 3.                                                                 *)
C16_OffendingLine ==
    LastIsDecode /\ OffendingLine # 0 =>
        /\ LastOp.result = "Err"
        /\ LastOp.error = "LineError"
        /\ LastOp.number = OffendingLine

\* what the code does instead: the number carried is one less
LineNumberFromZero ==
    LastIsDecode /\ OffendingLine # 0 =>
        /\ LastOp.result = "Err"
        /\ LastOp.error = "LineError"
        /\ LastOp.number = OffendingLine - 1

----------------------------------------------------------------------------
(* Claims about the title that decode gives.                               *)

\* t is line without the whitespace at its start when lead, and without the
\* whitespace at its end (the line break is whitespace)
Stripped(t, line, lead) ==
    \E a \in 0..Len(line) :
        /\ a + Len(t) <= Len(line)
        /\ lead \/ a = 0
        /\ \A k \in 1..Len(t) : t[k] = line[a + k]
        /\ \A k \in 1..Len(line) : k <= a \/ k > a + Len(t) => IsWhitespace(line[k])
        /\ t # << >> => ~IsWhitespace(t[Len(t)])
        /\ lead /\ t # << >> => ~IsWhitespace(t[1])

(* C17: decode sets the title to the content of line 1 with only the       *)
(* whitespace at its end and the line break removed; the whitespace at the *)
(* start of the line is kept.                                              *)
C17_TitleKeepsLeading == DecodedOk => Stripped(title, FileLines[1], FALSE)

\* C17 as the code has it: decode sets the title to the content of line 1
\* without the whitespace at its start and at its end.
C17_TitleTrimmed == DecodedOk => Stripped(title, FileLines[1], TRUE)

\* a file decoded whose title line starts and ends with blanks around a title of
\* two words
C17_Witness ==
    /\ DecodedOk
    /\ IsWhitespace(FileLines[1][1])
    /\ IsWhitespace(FileLines[1][Len(FileLines[1]) - 1])
    /\ \E k \in 2..(Len(title) - 1) : IsWhitespace(title[k])
    /\ Stripped(title, FileLines[1], TRUE)

----------------------------------------------------------------------------
(* parse_atom_line on its own (gromos87.rs): stream holds the one line it  *)
(* is given, and the Result it returns is logged.                          *)

MaxFields == 3

\* what follows a record: 8-character fields that hold a number, blanks, a
\* negative number or a letter, and a field cut short
FieldTexts ==
    { <<" ", " ", "1", ".", "0", "0", "0", "0">>,
      <<" ", " ", " ", " ", " ", " ", " ", " ">>,
      <<" ", "-", "2", ".", "5", "0", "0", "0">>,
      <<" ", " ", "1", ".", "s", "0", "0", "0">>,
      <<" ", " ", "3", ".", "0">> }

RECURSIVE Concat(_)
Concat(ss) == IF ss = << >> THEN << >> ELSE Head(ss) \o Concat(Tail(ss))

\* the record before the fields: whole (44 characters), with a letter in its
\* position, without its last character, or cut after 30 characters
RecordCuts == {"whole", "letter", "short", "cut"}

RecordText(cut) ==
    CASE cut = "letter" -> [SubSeq(RecordLines(<< << <<"R", "E", "S", "1">>, <<"A", "T", "1">> >> >>, 1, FALSE), 1, 44)
                               EXCEPT ![24] = "s"]
      [] cut = "short" -> SubSeq(RecordLines(<< << <<"R", "E", "S", "1">>, <<"A", "T", "1">> >> >>, 1, FALSE), 1, 43)
      [] cut = "cut" -> SubSeq(RecordLines(<< << <<"R", "E", "S", "1">>, <<"A", "T", "1">> >> >>, 1, FALSE), 1, 30)
      [] OTHER -> SubSeq(RecordLines(<< << <<"R", "E", "S", "1">>, <<"A", "T", "1">> >> >>, 1, FALSE), 1, 44)

LineEnds == { << >>, <<"\n">> }

\* one call of parse_atom_line on the line
ParseAtomLine ==
    /\ pc = "line"
    /\ pc' = "parsed"
    /\ codecLog' = Append(codecLog, [op |-> "parse_atom_line", line |-> parse_atom_line(stream)])
    /\ UNCHANGED <<stream, heapVars, confVars, iterVars, internVars, writerVars, pbcVars>>

InitLine ==
    /\ names = << >>
    /\ resHeap = << >>
    /\ residues = << >>
    /\ atoms = << >>
    /\ title = << >>
    /\ origin = RVec(0, 0, 0)
    /\ size = RVec(0, 0, 0)
    /\ \E cut \in RecordCuts, fields \in SeqsUpTo(FieldTexts, MaxFields), end \in LineEnds :
          stream = RecordText(cut) \o Concat(fields) \o end
    /\ pc = "line"
    /\ index = 0
    /\ status = "iterating"
    /\ iterLog = << >>
    /\ internLog = << >>
    /\ codecLog = << >>
    /\ atomsWritten = 0
    /\ groupsWritten = 0
    /\ pbcLog = << >>

NextLine == ParseAtomLine

SpecLine == InitLine /\ [][NextLine]_vars

----------------------------------------------------------------------------
(* Claims about the velocity of an atom record.                            *)

\* parse_atom_line has been called on the line in stream
Parsed == pc = "parsed"

ParsedLine == codecLog[Len(codecLog)].line

\* the k-th (from 1) 8-character field from column `from` of the line, shorter
\* when the line ends in it
FieldAt(from, k) ==
    SubSeq(stream, from + 8 * (k - 1) + 1,
           IF from + 8 * k < Len(stream) THEN from + 8 * k ELSE Len(stream))

NumberAt(from, k) == ParseFloat(Trim(FieldAt(from, k)))

\* the record up to column 44 is there and its position is three numbers
PositionParses ==
    /\ Len(stream) >= 44
    /\ \A k \in 1..3 : NumberAt(20, k) # None

\* nothing or only whitespace from column 44 on
VelocityBlank == \A k \in 45..Len(stream) : IsWhitespace(stream[k])

\* three fields from column 44 on, each a number
VelocityParses ==
    /\ Len(stream) > 44 + 16
    /\ \A k \in 1..3 : NumberAt(44, k) # None

(* C18: parsing an atom record gives the velocity None exactly when there  *)
(* is nothing or only blanks from column 44 on, gives Some(velocity) when  *)
(* three 8-character fields that are numbers stand there, and gives a      *)
(* parse error for anything else there: a field that is no number, or only *)
(* one or two fields.                                                      *)
C18_Velocity ==
    Parsed /\ PositionParses =>
        IF VelocityBlank THEN ParsedLine.ok /\ ParsedLine.velocity = None
        ELSE IF VelocityParses
             THEN /\ ParsedLine.ok
                  /\ ParsedLine.velocity
                        = Some(RVec(NumberAt(44, 1)[1], NumberAt(44, 2)[1], NumberAt(44, 3)[1]))
        ELSE ~ParsedLine.ok

\* what the code does: C18 holds for the lines that are blank from column 44 on
\* or go on beyond the second field
VelocityOfThreeFields ==
    Parsed /\ PositionParses /\ (VelocityBlank \/ Len(stream) > 44 + 16) => C18_Velocity

\* and a line that ends in its first or second field, every field a number, has
\* the velocity None
VelocityOfFewerFields ==
    Parsed /\ PositionParses /\ ~VelocityBlank /\ Len(stream) <= 44 + 16
           /\ (\A k \in 1..2 : Len(stream) > 44 + 8 * (k - 1) => NumberAt(44, k) # None)
        => ParsedLine.ok /\ ParsedLine.velocity = None

----------------------------------------------------------------------------
(* Claims about atom records that are too short.                           *)

\* a line without its line break
WithoutBreak(line) ==
    IF line # << >> /\ line[Len(line)] = "\n" THEN SubSeq(line, 1, Len(line) - 1) ELSE line

\* the lines of the file that decode reads as atom records
RecordLineNumbers ==
    IF DeclaredCount = None THEN {}
    ELSE { k \in 3..Len(FileLines) : k <= 2 + DeclaredCount[1] }

(* C19: an atom record of fewer than 44 characters, the line break not     *)
(* counted, is rejected with the parse error of its line when decode reads *)
(* it as a line of the file.                                               *)
C19_ShortRecordRejected ==
    LastIsDecode /\ (\E k \in RecordLineNumbers : Len(WithoutBreak(FileLines[k])) < 44) =>
        LastOp.result = "Err" /\ LastOp.error = "LineError"

\* what the code does: the line break is counted, so that only the records of
\* fewer than 43 characters before their line break are always rejected
ShortLineRejected ==
    LastIsDecode /\ (\E k \in RecordLineNumbers : Len(FileLines[k]) < 44) =>
        LastOp.result = "Err" /\ LastOp.error = "LineError"

----------------------------------------------------------------------------
(* RVec::from_whitespace on its own (rvec.rs): stream holds the line it is *)
(* given, and the Result it returns is logged.                             *)

MaxTokens == 4

\* numbers with and without a point and a sign, and what is no number
BoxTokens ==
    { <<"1", ".", "0">>, <<"-", "2", ".", "5">>, <<"3", "0">>, <<"s">>, <<"1", ",", "2">> }

\* what stands between two tokens, before the first and after the last
BoxGaps == { <<" ">>, <<" ", " ", "\t">> }
BoxLeads == { << >>, <<" ", " ">>, <<"\t">> }
BoxEnds == { << >>, <<"\n">>, <<" ", "\n">> }

RECURSIVE JoinTokens(_, _)
JoinTokens(tokens, gap) ==
    IF tokens = << >> THEN << >>
    ELSE IF Len(tokens) = 1 THEN tokens[1]
    ELSE tokens[1] \o gap \o JoinTokens(Tail(tokens), gap)

\* one call of RVec::from_whitespace on the line
FromWhitespace ==
    /\ pc = "box"
    /\ pc' = "box_parsed"
    /\ codecLog' = Append(codecLog, [op |-> "from_whitespace", rvec |-> from_whitespace(stream)])
    /\ UNCHANGED <<stream, heapVars, confVars, iterVars, internVars, writerVars, pbcVars>>

InitBox ==
    /\ names = << >>
    /\ resHeap = << >>
    /\ residues = << >>
    /\ atoms = << >>
    /\ title = << >>
    /\ origin = RVec(0, 0, 0)
    /\ size = RVec(0, 0, 0)
    /\ \E tokens \in SeqsUpTo(BoxTokens, MaxTokens), gap \in BoxGaps, lead \in BoxLeads,
          end \in BoxEnds :
          stream = lead \o JoinTokens(tokens, gap) \o end
    /\ pc = "box"
    /\ index = 0
    /\ status = "iterating"
    /\ iterLog = << >>
    /\ internLog = << >>
    /\ codecLog = << >>
    /\ atomsWritten = 0
    /\ groupsWritten = 0
    /\ pbcLog = << >>

NextBox == FromWhitespace

SpecBox == InitBox /\ [][NextBox]_vars

----------------------------------------------------------------------------
(* Claims about the box-size line.                                         *)

\* from_whitespace has been called on the line in stream
BoxParsed == pc = "box_parsed"

ParsedBox == codecLog[Len(codecLog)].rvec

\* the place of the first whitespace of s, Len(s) + 1 when it has none
FirstGap(s) == Min({ i \in 1..(Len(s) + 1) : i = Len(s) + 1 \/ IsWhitespace(s[i]) })

\* the tokens of s, read from the left: whitespace is skipped, and a token goes
\* up to the next whitespace
RECURSIVE TokensOf(_)
TokensOf(s) ==
    IF s = << >> THEN << >>
    ELSE IF IsWhitespace(s[1]) THEN TokensOf(Tail(s))
    ELSE <<SubSeq(s, 1, FirstGap(s) - 1)>> \o TokensOf(SubSeq(s, FirstGap(s), Len(s)))

BoxLineTokens == TokensOf(stream)

ThreeNumbers(tokens) ==
    /\ Len(tokens) >= 3
    /\ \A k \in 1..3 : ParseFloat(tokens[k]) # None

(* C20: the box-size line is parsed from its first three tokens, which any *)
(* amount of whitespace separates: the tokens after the third are ignored, *)
(* and a line of fewer than three tokens, or with a token among the first  *)
(* three that is no number, is an error: MissingValues when the line has   *)
(* no token, ParseFloatError otherwise.                                    *)
C20_BoxLineTokens ==
    BoxParsed =>
        IF BoxLineTokens = << >> THEN ParsedBox.err = "MissingValues"
        ELSE IF ThreeNumbers(BoxLineTokens)
             THEN /\ ParsedBox.err = ""
                  /\ ParsedBox.value = RVec(ParseFloat(BoxLineTokens[1])[1],
                                            ParseFloat(BoxLineTokens[2])[1],
                                            ParseFloat(BoxLineTokens[3])[1])
        ELSE ParsedBox.err = "ParseFloatError"

\* a line parsed whose three numbers stand after leading whitespace, tabs
\* between them, and before a fourth token that is no number
C20_Witness ==
    /\ BoxParsed
    /\ ParsedBox.err = ""
    /\ IsWhitespace(stream[1])
    /\ \E k \in 1..Len(stream) : stream[k] = "\t"
    /\ Len(BoxLineTokens) = 4
    /\ ParseFloat(BoxLineTokens[4]) = None
    /\ ParsedBox.value.x # ParsedBox.value.y

----------------------------------------------------------------------------
(* The iterator while the caller renames (conf.rs).  A name is an          *)
(* Rc<RefCell<String>>: whoever holds a handle can write another text into *)
(* it, also between two calls of next, and every holder sees the new text. *)

MaxRenameAtoms == 3

\* the handles the caller writes to: the slot 0 of RES1 and the slot 0 of RES2
RenamedHandles == {1, 3}

\* the texts written: the text of another slot of the same residue, and a new one
RenameTexts == {"AT1", "AT2", "XX"}

\* `*name.borrow_mut() = text` on the handle a, once: before the first call of
\* next, between two calls or after the last
Rename ==
    /\ status = "iterating"
    /\ names = IterNames
    /\ \E a \in RenamedHandles, text \in RenameTexts :
          /\ names[a] # text
          /\ names' = [names EXCEPT ![a] = text]
    /\ UNCHANGED <<resHeap, confVars, iterVars, internVars, codecVars, writerVars, pbcVars>>

InitRename ==
    /\ names = IterNames
    /\ resHeap = IterResidues
    /\ residues = <<1, 2, 3>>
    /\ \E ks \in SeqsUpTo(AtomKinds, MaxRenameAtoms) : atoms = MakeAtoms(ks)
    /\ index = 0
    /\ status = "iterating"
    /\ iterLog = << >>
    /\ internLog = << >>
    /\ title = <<"A", " ", "t", "i", "t", "l", "e">>
    /\ origin = RVec(0, 0, 0)
    /\ size = RVec(0, 0, 0)
    /\ stream = << >>
    /\ pc = "conf"
    /\ codecLog = << >>
    /\ atomsWritten = 0
    /\ groupsWritten = 0
    /\ pbcLog = << >>

NextRename == IterNext \/ Rename

SpecRename == InitRename /\ [][NextRename]_vars

----------------------------------------------------------------------------
(* Claims about names and their texts.                                     *)

\* what the handles alone say of an attempt at i (no text is read): the item and
\* the cursor after it; the template of the atom at i declares an atom
HandleOutcome(i) ==
    IF FullMatch(i)
    THEN [item |-> ItemOk(Slice(atoms, i, Len(TemplateAt(i)))),
          end |-> i + Len(TemplateAt(i))]
    ELSE IF ~SlotMatch(i, 0) THEN [item |-> ItemErr(i), end |-> i + 1]
    ELSE [item |-> ItemErr(i),
          end |-> i + Min({ j \in 1..(Len(TemplateAt(i)) - 1) : ~SlotMatch(i, j) })]

\* when the call k was made, the atom at i + j held the text of slot j of the
\* template of the atom at i, in another handle
TextTwin(k, i, j) ==
    /\ i + j < Len(atoms)
    /\ j < Len(TemplateAt(i))
    /\ atoms[i + j + 1].name # TemplateAt(i)[j + 1]
    /\ iterLog[k].texts[atoms[i + j + 1].name] = iterLog[k].texts[TemplateAt(i)[j + 1]]

(* C21: grouping depends on the identity of the name handles only, never   *)
(* on their texts.  Whatever texts the handles hold when next is called,   *)
(* and whatever was renamed before or between the calls, the call at i     *)
(* returns the result that the handles of the atoms and of the template    *)
(* determine, with the same span and index; so two Confs that differ only  *)
(* in the texts of their names get the same results.  In particular an     *)
(* atom whose name holds the text of the expected slot in another handle   *)
(* is a mismatch.                                                          *)
C21_IdentityNotText ==
    \A k \in Calls :
        (iterLog[k].start < Len(atoms) /\ Len(TemplateAt(iterLog[k].start)) >= 1) =>
            /\ iterLog[k].item = HandleOutcome(iterLog[k].start).item
            /\ iterLog[k].end = HandleOutcome(iterLog[k].start).end
            /\ \A j \in 0..(Len(atoms) - 1) :
                  (TextTwin(k, iterLog[k].start, j)
                      /\ \A m \in 0..(j - 1) : SlotMatch(iterLog[k].start, m))
                  => (iterLog[k].item = ItemErr(iterLog[k].start)
                        /\ iterLog[k].end = iterLog[k].start + (IF j = 0 THEN 1 ELSE j))

\* a group was yielded, the caller then wrote into a handle the text of another
\* slot, and the next call met an atom that has the text of the expected slot in
\* another handle since that rename only
C21_Witness ==
    \E k \in Calls :
        /\ k + 1 \in Calls
        /\ iterLog[k].item.tag = "Ok"
        /\ iterLog[k].texts = IterNames
        /\ iterLog[k + 1].texts # IterNames
        /\ \E j \in 0..1 :
              /\ TextTwin(k + 1, iterLog[k + 1].start, j)
              /\ IterNames[atoms[iterLog[k + 1].start + j + 1].name]
                    # IterNames[TemplateAt(iterLog[k + 1].start)[j + 1]]
        /\ iterLog[k + 1].item.tag = "Err"

----------------------------------------------------------------------------
(* Claims about the calls of next that abort.                              *)

(* C22: next never aborts.  For every atom list and every residue          *)
(* template, also an atom list that ends before the template is complete   *)
(* and a residue that declares no atom, each call returns None, Some(Ok)   *)
(* or Some(Err); with the cursor at the end of the atoms the call returns  *)
(* None.                                                                   *)
C22_NeverAborts ==
    /\ status = "iterating"
    /\ \A k \in Calls :
          /\ iterLog[k].item.tag \in {"None", "Ok", "Err"}
          /\ iterLog[k].start = Len(atoms) <=> iterLog[k].item = ItemNone

\* what the code does: a call aborts exactly when the atom at the cursor belongs to
\* a residue that declares no atom
AbortsOnEmptyTemplate ==
    \A k \in Calls :
        /\ iterLog[k].item = ItemPanic <=>
              (iterLog[k].start < Len(atoms) /\ TemplateAt(iterLog[k].start) = << >>)
        /\ iterLog[k].start = Len(atoms) <=> iterLog[k].item = ItemNone

----------------------------------------------------------------------------
(* Claims about the cursor.                                                *)

(* C23: the cursor is always between 0 and len(atoms); every call of next  *)
(* that emits a result, Ok or Err, moves the cursor forward, so that at    *)
(* most len(atoms) results are emitted; a call that returns None leaves    *)
(* the cursor where it is, and every later call returns None too.          *)
C23_CursorAdvances ==
    /\ index >= 0
    /\ index <= Len(atoms)
    /\ \A k \in Calls :
          /\ iterLog[k].start >= 0
          /\ iterLog[k].end <= Len(atoms)
          /\ k \in Emitted => iterLog[k].end > iterLog[k].start
          /\ iterLog[k].item = ItemNone =>
                /\ iterLog[k].end = iterLog[k].start
                /\ \A m \in Calls : m > k => iterLog[m].item = ItemNone
    /\ Cardinality(Emitted) <= Len(atoms)

\* an Ok, an Err for a wrong first atom and an Err for atoms that end inside a
\* template were emitted, and None was returned twice
C23_Witness ==
    /\ \E k \in Emitted : iterLog[k].item.tag = "Ok"
    /\ \E k \in Emitted :
          /\ iterLog[k].item.tag = "Err"
          /\ iterLog[k].end = iterLog[k].start + 1
          /\ iterLog[k].end < Len(atoms)
    /\ \E k \in Emitted :
          /\ iterLog[k].item.tag = "Err"
          /\ iterLog[k].end = iterLog[k].start + 2
          /\ iterLog[k].end = Len(atoms)
    /\ Cardinality({ k \in Calls : iterLog[k].item = ItemNone }) = 2
    /\ index = Len(atoms)

----------------------------------------------------------------------------
(* Claims about the atoms an attempt leaves to the next one.               *)

\* the call k met its first failure at slot j on an atom that is there but is not
\* the slot
WrongAtomAt(k, j) ==
    /\ FirstFailureAt(iterLog[k].start, j)
    /\ iterLog[k].start + j < Len(atoms)

\* the atoms consumed by the emitted results lie one after the other: each result
\* starts where the one before it ended, the first at 0
SpansAdjoin ==
    \A k \in Calls :
        iterLog[k].start = (IF k = 1 THEN 0 ELSE iterLog[k - 1].end)

(* C24: no atom is examined by more than one attempt: after a mismatch     *)
(* inside the template, found at the atom i+j, the span that the error     *)
(* consumes includes the failing atom i+j, and that atom is not the first  *)
(* atom of a later attempt.                                                *)
C24_FailingAtomConsumed ==
    \A k \in Calls : \A j \in 1..Len(atoms) :
        WrongAtomAt(k, j) =>
            /\ iterLog[k].end > iterLog[k].start + j
            /\ \A m \in Calls : m > k => iterLog[m].start # iterLog[k].start + j

\* C24 as the code has it: no atom is consumed by more than one result, but the
\* atom i+j that fails inside the template is not consumed by the error, whose
\* span is the j atoms before it: it is the first atom of the next attempt.
C24_FailingAtomOfferedAgain ==
    /\ SpansAdjoin
    /\ \A k \in Calls : \A j \in 1..Len(atoms) :
          WrongAtomAt(k, j) =>
              /\ iterLog[k].item = ItemErr(iterLog[k].start)
              /\ iterLog[k].end = iterLog[k].start + j
              /\ k + 1 \in Calls => iterLog[k + 1].start = iterLog[k].start + j

\* an attempt failed on its second and one on its third atom, and the atom an
\* attempt failed on was the first atom of the group yielded next
C24_Witness ==
    /\ \E k \in Calls : WrongAtomAt(k, 2)
    /\ \E k \in Calls :
          /\ WrongAtomAt(k, 1)
          /\ k + 1 \in Calls
          /\ iterLog[k + 1].item.tag = "Ok"
          /\ iterLog[k + 1].item.atoms[1] = atoms[iterLog[k].start + 2]

----------------------------------------------------------------------------
(* Claims about what a lookup changes.                                     *)

\* s is the start of t
IsPrefix(s, t) == Len(s) <= Len(t) /\ \A k \in 1..Len(s) : t[k] = s[k]

\* the texts of a list of name handles, and of the names of a list of residues
AtomTextsOf(r) == { names[resHeap[r].atoms[k]] : k \in 1..Len(resHeap[r].atoms) }
ResidueTextsOf(ress) == { names[resHeap[ress[k]].name] : k \in 1..Len(ress) }

\* the residues known before the step are what they were: same name, same atoms
OthersKept(changed) ==
    \A r \in 1..Len(resHeap) : r \notin changed => resHeap'[r] = resHeap[r]

\* the lookup of a residue name that the step made
ResidueLookupFrame(name) ==
    IF name \in ResidueTextsOf(residues)
    THEN residues' = residues /\ Len(resHeap') = Len(resHeap)
    ELSE /\ Len(residues') = Len(residues) + 1
         /\ IsPrefix(residues, residues')
         /\ resHeap'[residues'[Len(residues')]].name > Len(names)
         /\ names'[resHeap'[residues'[Len(residues')]].name] = name

\* the lookup of an atom name that the step made in the residue r, whose atoms
\* were `before` when it was made
AtomLookupFrame(r, before, atom_name) ==
    IF \E k \in 1..Len(before) : names'[before[k]] = atom_name
    THEN resHeap'[r].atoms = before
    ELSE /\ Len(resHeap'[r].atoms) = Len(before) + 1
         /\ IsPrefix(before, resHeap'[r].atoms)
         /\ resHeap'[r].atoms[Len(before) + 1] > Len(names)
         /\ names'[resHeap'[r].atoms[Len(before) + 1]] = atom_name

\* one step of a lookup, e the entry it logged
LookupFrame(e) ==
    /\ IsPrefix(names, names')
    /\ IsPrefix(residues, residues')
    /\ e.op = "residue" =>
          /\ ResidueLookupFrame(e.residue_name)
          /\ OthersKept({})
          /\ Len(residues') > Len(residues) => resHeap'[e.residue].atoms = << >>
    /\ e.op = "atom" =>
          /\ residues' = residues
          /\ Len(resHeap') = Len(resHeap)
          /\ OthersKept({e.residue})
          /\ resHeap'[e.residue].name = resHeap[e.residue].name
          /\ AtomLookupFrame(e.residue, resHeap[e.residue].atoms, e.atom_name)
    /\ e.op = "atom_and_residue" =>
          /\ ResidueLookupFrame(e.residue_name)
          /\ OthersKept({e.residue})
          /\ e.residue <= Len(resHeap) => resHeap'[e.residue].name = resHeap[e.residue].name
          /\ AtomLookupFrame(e.residue,
                             IF e.residue <= Len(resHeap) THEN resHeap[e.residue].atoms
                             ELSE << >>,
                             e.atom_name)

(* C25: the intern table is append-only.  A lookup that hits leaves the    *)
(* residue list and the atom list of every residue as they are; a lookup   *)
(* that misses appends one new entry at the end (a new residue starts with *)
(* no atom) and leaves every entry there was at its place; the lookup of   *)
(* an atom in one residue never changes the atom list of another; nothing  *)
(* is removed or put in another order.                                     *)
C25_AppendOnly ==
    [][Len(internLog') = Len(internLog) + 1 => LookupFrame(internLog'[Len(internLog')])]_vars

\* a residue was looked up twice, a lookup of both names made a second residue
\* with its first atom, and an atom was then added to the first residue
C25_Witness ==
    /\ Len(residues) = 2
    /\ \E p \in Lookups, q \in Lookups, u \in Lookups, w \in Lookups :
          /\ p < q /\ q < u /\ u < w
          /\ internLog[p].op = "residue" /\ internLog[q].op = "residue"
          /\ internLog[p].residue = residues[1] /\ internLog[q].residue = residues[1]
          /\ internLog[u].op = "atom_and_residue"
          /\ internLog[u].residue = residues[2]
          /\ internLog[w].op = "atom"
          /\ internLog[w].residue = residues[1]
    /\ Len(resHeap[residues[1]].atoms) = 1
    /\ Len(resHeap[residues[2]].atoms) = 1

----------------------------------------------------------------------------
(* Claims about what an encode has written when it returns.                *)

\* the atoms of the complete groups from the atom at i up to the first group that
\* is not complete, added to i
RECURSIVE AtomsBeforeBadGroup(_)
AtomsBeforeBadGroup(i) ==
    IF i >= Len(atoms) THEN Len(atoms)
    ELSE IF FullMatch(i) THEN AtomsBeforeBadGroup(i + Len(TemplateAt(i)))
    ELSE i

\* the file is whole: the title, the atom count, a record per atom and the box line
WholeFileWritten ==
    /\ Len(FileLines) = Len(atoms) + 3
    /\ FileLines[Len(FileLines)] = FormatBoxLine(size)

(* C26: encode is all-or-nothing in what it writes.  When it returns a     *)
(* grouping error nothing has been written to the output: no title line,   *)
(* no count line, no atom record of an earlier group; when it returns Ok   *)
(* the whole file, box-size line included, has been written.               *)
C26_AllOrNothing ==
    LastIsEncode =>
        /\ LastOp.result = "BadResidue" => stream = << >>
        /\ LastOp.result = "Ok" => WholeFileWritten

\* what the code does: when encode returns a grouping error the output holds the
\* title line, the count line with the number of all atoms, and the records of the
\* groups before the one in error; the box-size line is not written
PartWrittenOnError ==
    LastIsEncode =>
        /\ LastOp.result = "BadResidue" =>
              /\ Len(FileLines) = 2 + AtomsBeforeBadGroup(0)
              /\ FileLines[1] = title \o <<"\n">>
              /\ ParseUsize(Trim(FileLines[2])) = Some(Len(atoms))
        /\ LastOp.result = "Ok" => WholeFileWritten

----------------------------------------------------------------------------
(* Claims about the order of what an encode writes.                        *)

Longer(a, b) == IF a >= b THEN a ELSE b

\* the record is the one of atom j of the Conf: after the residue ordinal come
\* the residue name, the atom name and the ordinal j, each in a field of five
\* characters or of the length of its text when that is more
RecordOfAtom(line, j, atom) ==
    /\ Len(line) >= 10 + Longer(5, Len(atom.residue_name)) + Longer(5, Len(atom.atom_name))
    /\ LeftAligned(Range(line, 5, 5 + Longer(5, Len(atom.residue_name))), atom.residue_name)
    /\ RightAligned(Range(line, 5 + Longer(5, Len(atom.residue_name)),
                          5 + Longer(5, Len(atom.residue_name))
                            + Longer(5, Len(atom.atom_name))),
                    atom.atom_name)
    /\ ParseUsize(Trim(Range(line,
                             5 + Longer(5, Len(atom.residue_name))
                               + Longer(5, Len(atom.atom_name)),
                             10 + Longer(5, Len(atom.residue_name))
                                + Longer(5, Len(atom.atom_name)))))
          = Some(j)

\* the line holds the three numbers of the box size and nothing else
BoxLineOf(line, size_) ==
    /\ Len(TokensOf(line)) = 3
    /\ ParseFloat(TokensOf(line)[1]) = Some(size_.x)
    /\ ParseFloat(TokensOf(line)[2]) = Some(size_.y)
    /\ ParseFloat(TokensOf(line)[3]) = Some(size_.z)

(* C27: what a successful encode has written is, in this order, the title  *)
(* line, a count line that holds len(atoms), len(atoms) atom records in    *)
(* the order of the atom list, and one box-size line at the end; so the    *)
(* count line is the number of atom records written.                       *)
C27_OutputOrder ==
    LastIsEncode /\ LastOp.result = "Ok" =>
        /\ Len(FileLines) = Len(atoms) + 3
        /\ FileLines[1] = title \o <<"\n">>
        /\ FileLines[2] = WithoutBreak(FileLines[2]) \o <<"\n">>
        /\ ParseUsize(WithoutBreak(FileLines[2])) = Some(Len(atoms))
        /\ \A j \in 1..Len(atoms) : RecordOfAtom(FileLines[2 + j], j, LastOp.conf.atoms[j])
        /\ BoxLineOf(FileLines[Len(atoms) + 3], size)
        /\ Len(WrittenRecords(2)) = Len(atoms)

\* a Conf of three atoms in two groups of different residues was written
C27_Witness ==
    /\ LastIsEncode
    /\ LastOp.result = "Ok"
    /\ Len(atoms) = 3
    /\ atoms[1].residue # atoms[3].residue
    /\ atoms[1].name # atoms[2].name
    /\ \A j \in 1..3 : RecordOfAtom(FileLines[2 + j], j, LastOp.conf.atoms[j])

----------------------------------------------------------------------------
(* Claims about encoding what a decode returned.                           *)

(* C28: every Conf that a successful decode returns can be encoded again:  *)
(* its atoms are whole groups, so that iterating its residues yields no    *)
(* Err, and the encode of it returns Ok, whatever file decode accepted.    *)
C28_DecodedEncodes ==
    /\ DecodedOk => WellFormedFrom(0)
    /\ \A k \in CodecOps :
          (/\ k + 1 \in CodecOps
           /\ codecLog[k].op = "decode" /\ codecLog[k].result = "Ok"
           /\ codecLog[k + 1].op = "encode")
          => codecLog[k + 1].result = "Ok"

\* what the code does: the encode of a decoded Conf returns Ok exactly when the
\* records of the file, residue numbers ignored, are whole groups of the
\* templates that decode built from them
DecodedEncodesWhenGrouped ==
    LastIsEncode /\ Len(codecLog) > 1 /\ codecLog[Len(codecLog) - 1].op = "decode" =>
        (LastOp.result = "Ok" <=> WellFormedFrom(0))


----------------------------------------------------------------------------
(* The iterator and the writer on a Conf built by hand in which two        *)
(* residues declare the same name cell (conf.rs).  The fields of Residue   *)
(* and of Atom are public: the same Rc can be pushed onto the atoms of two *)
(* residues, and every atom's name then points to an atom in its residue.  *)

MaxSharedAtoms == 3

\* the name cells: AT1, AT2, and the names of the two residues
SharedNames ==
    << <<"A", "T", "1">>, <<"A", "T", "2">>, <<"R", "E", "S", "1">>, <<"R", "E", "S", "2">> >>

\* RES1 declares AT1 and AT2; RES2 declares the very cell of AT2
SharedResidues ==
    << [name |-> 3, atoms |-> <<1, 2>>],
       [name |-> 4, atoms |-> <<2>>] >>

\* <<name handle, residue handle>>: the atoms of RES1 and the atom of RES2
SharedKinds == { <<1, 1>>, <<2, 1>>, <<2, 2>> }

InitShared ==
    /\ names = SharedNames
    /\ resHeap = SharedResidues
    /\ residues = <<1, 2>>
    /\ \E ks \in SeqsUpTo(SharedKinds, MaxSharedAtoms) : atoms = MakeConfAtoms(ks, "plain")
    /\ index = 0
    /\ status = "iterating"
    /\ iterLog = << >>
    /\ internLog = << >>
    /\ title = <<"A", " ", "t", "i", "t", "l", "e">>
    /\ origin = RVec(0, 0, 0)
    /\ size = RVec(10 * Unit, 20 * Unit, 30 * Unit)
    /\ stream = << >>
    /\ pc = "conf"
    /\ codecLog = << >>
    /\ atomsWritten = 0
    /\ groupsWritten = 0
    /\ pbcLog = << >>

NextShared == IterNext \/ Encode

SpecShared == InitShared /\ [][NextShared]_vars

----------------------------------------------------------------------------
(* Claims about the residue of the atoms of a group.                       *)

\* the columns of the residue ordinal and of the residue name of a record
OrdinalField(line) == SubSeq(line, 1, 5)

ResidueNameField(line) == SubSeq(line, 6, 10)

\* the atoms of every group returned have the residue of the group's first atom
GroupsOfOneResidue ==
    \A k \in Calls :
        Items[k].tag = "Ok" =>
            \A a \in 1..Len(Items[k].atoms) :
                Items[k].atoms[a].residue = Items[k].atoms[1].residue

\* the records written under one residue ordinal carry one residue name
OrdinalsOfOneResidue ==
    LastIsEncode /\ LastOp.result = "Ok" =>
        \A i, j \in 1..Len(atoms) :
            OrdinalField(FileLines[2 + i]) = OrdinalField(FileLines[2 + j])
                => ResidueNameField(FileLines[2 + i]) = ResidueNameField(FileLines[2 + j])

(* C29: in every group the iterator returns as Ok, every atom's residue is *)
(* identical to the residue of the group's first atom, and so the records  *)
(* that encode writes under one residue ordinal all carry the same residue *)
(* name.                                                                   *)
C29_GroupOneResidue == GroupsOfOneResidue /\ OrdinalsOfOneResidue

\* what next does compare: the name of the atom at place a of an Ok group is the
\* cell at place a of the template of the first atom's residue, whatever residue
\* the atom itself refers to
GroupSlotsOfFirstResidue ==
    \A k \in Calls :
        Items[k].tag = "Ok" =>
            /\ Len(Items[k].atoms) = Len(resHeap[Items[k].atoms[1].residue].atoms)
            /\ \A a \in 1..Len(Items[k].atoms) :
                  Items[k].atoms[a].name = resHeap[Items[k].atoms[1].residue].atoms[a]

\* a group returned as Ok holds an atom of another residue, and the file written
\* has two residue names under the ordinal 1
MixedGroupWritten ==
    /\ \E k \in Calls :
          /\ Items[k].tag = "Ok"
          /\ Len(Items[k].atoms) = 2
          /\ Items[k].atoms[2].residue # Items[k].atoms[1].residue
    /\ LastIsEncode /\ LastOp.result = "Ok"
    /\ Len(atoms) = 2
    /\ OrdinalField(FileLines[3]) = OrdinalField(FileLines[4])
    /\ ResidueNameField(FileLines[3]) # ResidueNameField(FileLines[4])


----------------------------------------------------------------------------
(* Claims about the groups of a multiplied Conf.                           *)

\* the results a fresh iterator over `ats` gives up to its first None, as tags;
\* an abort inside next ends them
RECURSIVE ResultsFrom(_, _, _)

ResultsAfter(r, ats, heap) ==
    IF r.item.tag = "None" THEN << >>
    ELSE IF r.item.tag = "Panic" THEN <<"Panic">>
    ELSE <<r.item.tag>> \o ResultsFrom(ats, r.index, heap)

ResultsFrom(ats, idx, heap) == ResultsAfter(ResidueIterNext(ats, idx, heap), ats, heap)

AllOk(results) == \A k \in 1..Len(results) : results[k] = "Ok"

\* the groups of the Conf multiplied, e a call of pbc_multiply: as many results as
\* the original gave times the number of images, every one Ok, and no BadResidue
\* from the writer
GroupingKept(e, was, is) ==
    AllOk(was) =>
        /\ AllOk(is)
        /\ Len(is) = Len(was) * e.n[1] * e.n[2] * e.n[3]
        /\ write_gromos87_conf(e.after.title, e.after.size, names, resHeap,
                               e.after.atoms).result = "Ok"

(* C30: when iterating the residues of a Conf gives G results that are all *)
(* Ok, iterating the residues of its pbc_multiply(nx, ny, nz) gives        *)
(* G * nx * ny * nz results that are all Ok, and the writer reports no bad *)
(* residue for the multiplied Conf.                                        *)
C30_GroupingKept ==
    \A i \in 1..Len(pbcLog) :
        GroupingKept(pbcLog[i], ResultsFrom(pbcLog[i].before.atoms, 0, resHeap),
                     ResultsFrom(pbcLog[i].after.atoms, 0, resHeap))

\* a Conf of two groups of different residues (two atoms, then one) was
\* multiplied into at least four images in two directions, and iterating the
\* result gives twice as many Ok as there are images
C30_Witness ==
    \E i \in 1..Len(pbcLog) :
        /\ Len(pbcLog[i].before.atoms) = 3
        /\ pbcLog[i].before.atoms[1].residue # pbcLog[i].before.atoms[3].residue
        /\ ResultsFrom(pbcLog[i].before.atoms, 0, resHeap) = <<"Ok", "Ok">>
        /\ pbcLog[i].n[1] * pbcLog[i].n[2] * pbcLog[i].n[3] >= 4
        /\ pbcLog[i].n[2] # pbcLog[i].n[3]
        /\ Len(ResultsFrom(pbcLog[i].after.atoms, 0, resHeap))
              = 2 * pbcLog[i].n[1] * pbcLog[i].n[2] * pbcLog[i].n[3]
        /\ AllOk(ResultsFrom(pbcLog[i].after.atoms, 0, resHeap))

\* a Conf whose iteration gives an Err keeps giving an Err in every image
BadGroupingKept ==
    \A i \in 1..Len(pbcLog) :
        (/\ ~AllOk(ResultsFrom(pbcLog[i].before.atoms, 0, resHeap))
         /\ pbcLog[i].n[1] * pbcLog[i].n[2] * pbcLog[i].n[3] > 0)
        => ~AllOk(ResultsFrom(pbcLog[i].after.atoms, 0, resHeap))

====
